---- MODULE Spec2Model ----
(***************************************************************************)
(* A model of the portfolio-monitoring agent (gabomartinez21/              *)
(* invesment-track): the rebalancing calculator of portfolio.py, the price *)
(* fallback chain and the batch quote of prices.py, the news aggregation   *)
(* of news_sources.py and the run of news_digest_enhanced.py.              *)
(*                                                                         *)
(* Numbers.  The program computes in IEEE doubles; the model computes in   *)
(* exact rationals [n |-> numerator, d |-> denominator > 0] over integer   *)
(* quantities, prices and percentages, so a comparison of the model is the *)
(* comparison of the exact values (rounding error is not modelled).        *)
(***************************************************************************)
EXTENDS Integers, Sequences, FiniteSets, TLC

VARIABLES
    \* ---- portfolio.py ----
    holdings,         \* the holdings table: a sequence of rows
    prices,           \* the price map {ticker: price}
    min_trade_value,  \* argument of calculate_rebalancing_actions
    max_deviation,    \* argument of calculate_rebalancing_actions
    df,               \* the table returned by calculate_portfolio_values
    actions,          \* the list returned by calculate_rebalancing_actions
    pcPortfolio,      \* "start" | "valued" | "rebalanced"
    \* ---- prices.py: fetch_price ----
    price,            \* the local variable `price` of fetch_price
    consulted,        \* the sources called so far, in order, with their answers
    ret,              \* the value fetch_price returned
    pcPrice,          \* the stage fetch_price is about to run, or "done"
    \* ---- prices.py: fetch_quotes_batch ----
    tickers,          \* the requested tickers, a list
    response,         \* the answer of the multi-symbol quote request
    quotes,           \* the dict fetch_quotes_batch returned
    pcBatch,          \* "start" | "done"
    \* ---- news_sources.py: aggregate_news_from_all_sources ----
    query,            \* [ticker, company, max_per_source, marketaux_api_key]
    feeds,            \* what the two providers answered: [google, marketaux]
    google_articles,  \* the list fetch_google_news returned
    marketaux_articles, \* the list fetch_marketaux_news returned (<<>> if not called)
    filtered,         \* the list filter_relevant_articles returned
    news,             \* the list aggregate_news_from_all_sources returned
    newsRaised,       \* the aggregation raised instead of returning
    pcNews,           \* "start" | "done"
    \* ---- news_digest_enhanced.py: main (it also uses holdings, tickers,
    \*      response, quotes and prices above) ----
    ENABLE_REBALANCING,    \* the setting of that name
    prev_closes,           \* {ticker: previous close or None}
    total_portfolio_value, \* the local of that name
    stocks_data,           \* the list of process_stock_data results
    rebalancing_actions,   \* the list attached to the report
    total_prev_value,      \* the local of that name
    portfolio_summary,     \* [total_value, day_change, day_change_pct]
    email,                 \* "none" | "sent" | "not sent"
    pcRun,                 \* the step main is about to run, "done" or "aborted"
    \* ---- portfolio.py: generate_rebalancing_recommendation (it also uses
    \*      holdings and prices above) ----
    technical_data,        \* {ticker: rsi} of the technical_data argument
    fundamental_data,      \* {ticker: recommendation} of fundamental_data
    enhanced_actions,      \* the list generate_rebalancing_recommendation returned
    pcRecommendation,      \* "start" | "done"
    \* ---- analysis.py: get_technical_analysis ----
    closes,                \* what t.history gave: raised, or the Close series
    technical,             \* the dict get_technical_analysis returned
    pcAnalysis,            \* "start" | "done"
    \* ---- ai_analysis.py: get_ai_analysis ----
    completion,            \* [api_key, raised, fields]: the key and the answer
    ai_result,             \* the dict get_ai_analysis returned
    pcAi,                  \* "start" | "done"
    \* ---- prices.py: fetch_prev_close ----
    daily_hist,            \* [raised, Close]: the 10-day daily history
    http_prev_close,       \* "prev_close" of fetch_quote_yahoo_http, or None
    ret_prev_close,        \* what fetch_prev_close returned
    pcPrevClose,           \* "start" | "done"
    \* ---- news_digest_enhanced.py: main, from the sheet to the positions ----
    portfolio_df,          \* [has_target_weight, rows]: what load_portfolio returned
    cash_available,        \* extract_cash(portfolio_df)
    positions_df,          \* the rows main keeps, with their TargetWeight
    position_tickers,      \* positions_df["Ticker"].unique().tolist()
    position_prices,       \* main's prices dict
    report_weights,        \* current_weight of each stock of the report
    MIN_TRADE_VALUE,       \* the configured minimum trade value
    MAX_DEVIATION,         \* the configured maximum deviation
    position_actions,      \* the rebalancing actions computed from positions_df
    pcMain,                \* "start" | "positions" | "rebalanced"
    \* ---- news_digest_enhanced.py: module configuration, then main ----
    env,                   \* each required setting: "missing" | "empty" | "set"
    network_calls,         \* the network calls made so far, in order
    pcConfig,              \* "import" | "aborted" | "main" | "finished"
    \* ---- news_digest_enhanced.py: the price of one ticker in a run ----
    source_yields,         \* what each source of fetch_price has for the ticker
    batch_price,           \* "price" of the ticker in fetch_quotes_batch's answer
    run_price,             \* prices[ticker], then price in process_stock_data
    pcRunPrice             \* "start" | "done"

varsPortfolio ==
    <<holdings, prices, min_trade_value, max_deviation, df, actions, pcPortfolio>>

varsPrice == <<price, consulted, ret, pcPrice>>

varsBatch == <<tickers, response, quotes, pcBatch>>

varsNews ==
    <<query, feeds, google_articles, marketaux_articles, filtered, news,
      newsRaised, pcNews>>

varsRun ==
    <<ENABLE_REBALANCING, prev_closes, total_portfolio_value, stocks_data,
      rebalancing_actions, total_prev_value, portfolio_summary, email, pcRun>>

varsRecommendation ==
    <<technical_data, fundamental_data, enhanced_actions, pcRecommendation>>

varsAnalysis == <<closes, technical, pcAnalysis>>

varsAi == <<completion, ai_result, pcAi>>

varsPrevClose == <<daily_hist, http_prev_close, ret_prev_close, pcPrevClose>>

varsMain ==
    <<portfolio_df, cash_available, positions_df, position_tickers,
      position_prices, report_weights, MIN_TRADE_VALUE, MAX_DEVIATION,
      position_actions, pcMain>>

varsConfig ==
    <<env, network_calls, pcConfig>>

varsRunPrice ==
    <<source_yields, batch_price, run_price, pcRunPrice>>

vars ==
    <<varsPortfolio, varsPrice, varsBatch, varsNews, varsRun, varsRecommendation,
      varsAnalysis, varsAi, varsPrevClose, varsMain, varsConfig, varsRunPrice>>

othersRunPrice ==
    <<varsPortfolio, varsPrice, varsBatch, varsNews, varsRun, varsRecommendation,
      varsAnalysis, varsAi, varsPrevClose, varsMain, varsConfig>>

othersConfig ==
    <<varsPortfolio, varsPrice, varsBatch, varsNews, varsRun, varsRecommendation,
      varsAnalysis, varsAi, varsPrevClose, varsMain, varsRunPrice>>

othersAi ==
    <<varsPortfolio, varsPrice, varsBatch, varsNews, varsRun, varsRecommendation,
      varsAnalysis, varsPrevClose, varsMain, varsConfig, varsRunPrice>>

othersMain ==
    <<varsPortfolio, varsPrice, varsBatch, varsNews, varsRun, varsRecommendation,
      varsAnalysis, varsAi, varsPrevClose, varsConfig, varsRunPrice>>

othersPrevClose ==
    <<varsPortfolio, varsPrice, varsBatch, varsNews, varsRun, varsRecommendation,
      varsAnalysis, varsAi, varsMain, varsConfig, varsRunPrice>>

othersAnalysis ==
    <<varsPortfolio, varsPrice, varsBatch, varsNews, varsRun, varsRecommendation,
      varsAi, varsPrevClose, varsMain, varsConfig, varsRunPrice>>

othersPortfolio ==
    <<varsPrice, varsBatch, varsNews, varsRun, varsRecommendation,
      varsAnalysis, varsAi, varsPrevClose, varsMain, varsConfig, varsRunPrice>>

othersPrice ==
    <<varsPortfolio, varsBatch, varsNews, varsRun, varsRecommendation,
      varsAnalysis, varsAi, varsPrevClose, varsMain, varsConfig, varsRunPrice>>

othersBatch ==
    <<varsPortfolio, varsPrice, varsNews, varsRun, varsRecommendation,
      varsAnalysis, varsAi, varsPrevClose, varsMain, varsConfig, varsRunPrice>>

othersNews ==
    <<varsPortfolio, varsPrice, varsBatch, varsRun, varsRecommendation,
      varsAnalysis, varsAi, varsPrevClose, varsMain, varsConfig, varsRunPrice>>

othersRecommendation ==
    <<min_trade_value, max_deviation, df, actions, pcPortfolio, varsPrice,
      varsBatch, varsNews, varsRun, varsAnalysis, varsAi, varsPrevClose, varsMain, varsConfig, varsRunPrice>>

\* what main leaves alone: it calls neither fetch_price nor, directly, the
\* functions of portfolio.py with thresholds of its own
othersRun ==
    <<min_trade_value, max_deviation, df, actions, pcPortfolio, varsPrice,
      pcBatch, varsNews, varsRecommendation, varsAnalysis, varsAi, varsPrevClose, varsMain, varsConfig, varsRunPrice>>

(***************************************************************************)
(* Bounds of the model and input domains.                                  *)
(***************************************************************************)
MaxRows == 2
MaxPrice == 2
MaxResults == 2
MaxFeed == 2
MaxPerSource == 2

Tickers == {"AAA", "BBB"}
\* Qty and TargetWeight as load_portfolio leaves them: pd.to_numeric of the
\* sheet's cell.  Quantities are the non-negative ones of the data model; a
\* TargetWeight is not validated to 0..100, and a negative one is the case in
\* which the sale computed from value_diff exceeds the quantity held.
Quantities == {0, 1, 3}
TargetWeights == {-50, 0, 50}
PriceValues == {0, 1, 2}
MinTradeValues == {0, 2}
MaxDeviations == {0, 5, 50}

\* Python's None; also a key absent from a dict (dict.get gives None,
\* Series.map gives NaN).  Every number of the model is >= 0 or a rational.
None == -1

\* A JSON value that is not a number (a string, an object): float() of it
\* raises.
Malformed == -2

(***************************************************************************)
(* Each specification below exercises one component; the variables of the  *)
(* other components stay at these idle values.                             *)
(***************************************************************************)
IdlePortfolio ==
    /\ holdings = <<>>
    /\ prices = [t \in Tickers |-> None]
    /\ min_trade_value = 0
    /\ max_deviation = 0
    /\ df = <<>>
    /\ actions = <<>>
    /\ pcPortfolio = "idle"

IdlePrice ==
    /\ price = None
    /\ consulted = <<>>
    /\ ret = None
    /\ pcPrice = "idle"

IdleBatch ==
    /\ tickers = <<>>
    /\ response = [raised |-> FALSE, fields |-> <<>>]
    /\ quotes = <<>>
    /\ pcBatch = "idle"

IdleNews ==
    /\ query = <<>>
    /\ feeds = <<>>
    /\ google_articles = <<>>
    /\ marketaux_articles = <<>>
    /\ filtered = <<>>
    /\ news = <<>>
    /\ newsRaised = FALSE
    /\ pcNews = "idle"

IdleRun ==
    /\ ENABLE_REBALANCING = FALSE
    /\ prev_closes = [t \in Tickers |-> None]
    /\ total_portfolio_value = 0
    /\ stocks_data = <<>>
    /\ rebalancing_actions = <<>>
    /\ total_prev_value = 0
    /\ portfolio_summary = <<>>
    /\ email = "none"
    /\ pcRun = "idle"

IdleRecommendation ==
    /\ technical_data = [t \in Tickers |-> None]
    /\ fundamental_data = [t \in Tickers |-> ""]
    /\ enhanced_actions = <<>>
    /\ pcRecommendation = "idle"

IdleAnalysis ==
    /\ closes = [raised |-> FALSE, fields |-> <<>>]
    /\ technical = <<>>
    /\ pcAnalysis = "idle"

IdleRunPrice ==
    /\ source_yields = <<>>
    /\ batch_price = None
    /\ run_price = None
    /\ pcRunPrice = "idle"

IdleConfig ==
    /\ env = [v \in {} |-> "set"]
    /\ network_calls = <<>>
    /\ pcConfig = "idle"

IdleMain ==
    /\ portfolio_df = [has_target_weight |-> FALSE, rows |-> <<>>]
    /\ cash_available = 0
    /\ positions_df = <<>>
    /\ position_tickers = <<>>
    /\ position_prices = <<>>
    /\ report_weights = <<>>
    /\ MIN_TRADE_VALUE = 0
    /\ MAX_DEVIATION = 0
    /\ position_actions = <<>>
    /\ pcMain = "idle"

IdlePrevClose ==
    /\ daily_hist = [raised |-> FALSE, Close |-> <<>>]
    /\ http_prev_close = None
    /\ ret_prev_close = None
    /\ pcPrevClose = "idle"

IdleAi ==
    /\ completion = [api_key |-> FALSE, raised |-> FALSE, fields |-> <<>>]
    /\ ai_result = <<>>
    /\ pcAi = "idle"

(***************************************************************************)
(* Exact rationals.                                                        *)
(***************************************************************************)
Abs(x) == IF x < 0 THEN -x ELSE x

Rat(n, d) == [n |-> n, d |-> d]

RatAbs(a) == Rat(Abs(a.n), a.d)

RatLt(a, b) == a.n * b.d < b.n * a.d

RatLe(a, b) == a.n * b.d <= b.n * a.d

RatEq(a, b) == a.n * b.d = b.n * a.d

RatMin(a, b) == IF RatLt(b, a) THEN b ELSE a

RECURSIVE SumSeq(_)
SumSeq(s) == IF s = <<>> THEN 0 ELSE Head(s) + SumSeq(Tail(s))

(***************************************************************************)
(* portfolio.py                                                            *)
(***************************************************************************)
\* df["Ticker"].map(prices).fillna(0.0)
CurrentPriceOf(p, ticker) == IF p[ticker] = None THEN 0 ELSE p[ticker]

\* df["CurrentValue"].sum()
TotalValue(rows) == SumSeq([i \in 1..Len(rows) |-> rows[i].CurrentValue])

CurrentWeightOf_NoPercent(current_value, total_value) ==
    IF total_value > 0 THEN Rat(current_value, total_value) ELSE Rat(0, 1)

\* (df["CurrentValue"] / total_value * 100) if total_value > 0 else 0.0
CurrentWeightOf(current_value, total_value) ==
    IF total_value > 0 THEN Rat(current_value * 100, total_value) ELSE Rat(0, 1)

calculate_portfolio_values(h, p) ==
    LET valued == [i \in 1..Len(h) |->
                     [Ticker |-> h[i].Ticker,
                      Qty |-> h[i].Qty,
                      TargetWeight |-> h[i].TargetWeight,
                      CurrentPrice |-> CurrentPriceOf(p, h[i].Ticker),
                      CurrentValue |-> h[i].Qty * CurrentPriceOf(p, h[i].Ticker)]]
        total_value == TotalValue(valued)
    IN  [i \in 1..Len(h) |->
           [Ticker |-> valued[i].Ticker,
            Qty |-> valued[i].Qty,
            TargetWeight |-> valued[i].TargetWeight,
            CurrentPrice |-> valued[i].CurrentPrice,
            CurrentValue |-> valued[i].CurrentValue,
            CurrentWeight |-> CurrentWeightOf(valued[i].CurrentValue, total_value)]]

\* the target weight less the current weight
Deviation_Reversed(row) ==
    Rat(row.TargetWeight * row.CurrentWeight.d - row.CurrentWeight.n,
        row.CurrentWeight.d)

\* deviation = current_weight - target_weight
Deviation(row) ==
    Rat(row.CurrentWeight.n - row.TargetWeight * row.CurrentWeight.d,
        row.CurrentWeight.d)

\* value_diff = (target_weight / 100) * total_value - current_value
ValueDiff(row, total_value) ==
    Rat(row.TargetWeight * total_value - 100 * row.CurrentValue, 100)

\* the difference in value taken as a number of shares
QtyDiff_NoPrice(row, total_value) == ValueDiff(row, total_value)

\* qty_diff = value_diff / current_price   (current_price > 0 here)
QtyDiff(row, total_value) ==
    Rat(ValueDiff(row, total_value).n, 100 * row.CurrentPrice)

QtyToSell_NoCap(qty_diff, max_sellable) == RatAbs(qty_diff)

\* qty_to_sell = min(abs(qty_diff), max_sellable)
QtyToSell(qty_diff, max_sellable) == RatMin(RatAbs(qty_diff), Rat(max_sellable, 1))

\* the test that also skips a deviation equal to the threshold
WithinDeviation_Inclusive(deviation, maxdev) == Abs(deviation.n) <= maxdev * deviation.d

\* if abs(deviation) < max_deviation: continue
WithinDeviation(deviation, maxdev) == Abs(deviation.n) < maxdev * deviation.d

\* if abs(value_diff) < min_trade_value: continue
SmallTrade(value_diff, mintrade) == Abs(value_diff.n) < mintrade * value_diff.d

\* Whether the loop body appends an action for the row (no `continue` taken).
ProducesAction(row, total_value, mintrade, maxdev) ==
    /\ ~(row.CurrentPrice <= 0)
    /\ ~WithinDeviation(Deviation(row), maxdev)
    /\ ~SmallTrade(ValueDiff(row, total_value), mintrade)

\* The dict appended for the row; `row` (the index in the table) is a ghost
\* field recording which holding the action was computed from.
ActionOf(rows, i, total_value) ==
    LET row == rows[i]
        value_diff == ValueDiff(row, total_value)
        qty_diff == QtyDiff(row, total_value)
    IN  IF value_diff.n > 0
        THEN [ticker |-> row.Ticker,
              action |-> "COMPRAR",
              qty |-> RatAbs(qty_diff),
              value |-> RatAbs(value_diff),
              current_weight |-> row.CurrentWeight,
              target_weight |-> row.TargetWeight,
              deviation |-> Deviation(row),
              reason |-> "Subponderado",
              row |-> i]
        ELSE [ticker |-> row.Ticker,
              action |-> "VENDER",
              qty |-> QtyToSell(qty_diff, row.Qty),
              value |-> RatAbs(value_diff),
              current_weight |-> row.CurrentWeight,
              target_weight |-> row.TargetWeight,
              deviation |-> Deviation(row),
              reason |-> "Sobreponderado",
              row |-> i]

\* for _, row in df.iterrows(): ... actions.append(...)
RECURSIVE CollectActions(_, _, _, _, _)
CollectActions(rows, i, total_value, mintrade, maxdev) ==
    IF i > Len(rows) THEN <<>>
    ELSE (IF ProducesAction(rows[i], total_value, mintrade, maxdev)
          THEN <<ActionOf(rows, i, total_value)>>
          ELSE <<>>)
         \o CollectActions(rows, i + 1, total_value, mintrade, maxdev)

\* list.sort(key=abs(deviation), reverse=True): a stable sort, so an element
\* goes after the ones already placed whose key is greater or equal.
RECURSIVE InsertByDeviation(_, _)
InsertByDeviation(sorted, a) ==
    IF sorted = <<>> THEN <<a>>
    ELSE IF RatLt(RatAbs(Head(sorted).deviation), RatAbs(a.deviation))
         THEN <<a>> \o sorted
         ELSE <<Head(sorted)>> \o InsertByDeviation(Tail(sorted), a)

SortByDeviation_Unsorted(sorted, rest) == sorted \o rest

RECURSIVE SortByDeviation(_, _)
SortByDeviation(sorted, rest) ==
    IF rest = <<>> THEN sorted
    ELSE SortByDeviation(InsertByDeviation(sorted, Head(rest)), Tail(rest))

calculate_rebalancing_actions(h, p, mintrade, maxdev) ==
    LET rows == calculate_portfolio_values(h, p)
        total_value == TotalValue(rows)
    IN  IF total_value = 0 THEN <<>>
        ELSE SortByDeviation(<<>>, CollectActions(rows, 1, total_value, mintrade, maxdev))

(***************************************************************************)
(* prices.py: fetch_price, the fallback chain of five sources.  The answer *)
(* of a source is drawn when the source is called.  An answer is a record  *)
(* [raised, fields]: the call raised, or it gave the fields read from it   *)
(* (<<>> for an empty history or an empty quote result).  Closes and quote *)
(* fields are numbers >= 0 or None.                                        *)
(***************************************************************************)
SourceOrder == <<"fast_info", "info", "history_5d", "history_1d", "http">>

FieldValues == {None} \cup 0..MaxPrice

Raised == [raised |-> TRUE, fields |-> <<>>]

\* the answer of a provider that was not called
NotCalled == [raised |-> FALSE, fields |-> <<>>]

Answered(fields) == [raised |-> FALSE, fields |-> fields]

\* fast_info {last_price, last_price_raw}; info {currentPrice, regularMarketPrice}
TwoFieldAnswers == {Raised} \cup {Answered(f) : f \in [1..2 -> FieldValues]}

\* t.history(...): raises, is empty, or has a last Close
HistoryAnswers == {Raised, Answered(<<>>)} \cup {Answered(<<c>>) : c \in 0..MaxPrice}

\* the quote API: raises, has an empty result, or result[0] has
\* {regularMarketPrice, postMarketPrice, preMarketPrice}
HttpAnswers == {Raised, Answered(<<>>)} \cup {Answered(f) : f \in [1..3 -> FieldValues]}

\* Python truthiness of a price: None and 0 are falsy.
Truthy(v) == v # None /\ v # 0

NotPrice_NoneOnly(v) == v = None

\* `if not price:`
NotPrice(v) == ~Truthy(v)

\* `a or b`
PyOr(a, b) == IF Truthy(a) THEN a ELSE b

\* the first of the fields that is not None, else None
RECURSIVE FirstNotNone(_)
FirstNotNone(fields) ==
    IF fields = <<>> THEN None
    ELSE IF Head(fields) # None THEN Head(fields)
    ELSE FirstNotNone(Tail(fields))

\* fetch_quote_yahoo_http(ticker)["price"]
HttpQuotePrice(a) == IF a.raised THEN None ELSE FirstNotNone(a.fields)

\* fetch_price_yahoo_http: float(quote["price"]) if not None else 0.0
fetch_price_yahoo_http(a) == IF HttpQuotePrice(a) # None THEN HttpQuotePrice(a) ELSE 0

\* What a source's answer offers as a price (None: nothing).
YieldOf(source, a) ==
    IF source = "http" THEN fetch_price_yahoo_http(a)
    ELSE IF a.raised \/ a.fields = <<>> THEN None
    ELSE IF source \in {"fast_info", "info"} THEN PyOr(a.fields[1], a.fields[2])
    ELSE a.fields[1]

Consult(source, a) ==
    consulted' = Append(consulted, [source |-> source, answer |-> a,
                                    yield |-> YieldOf(source, a)])

\* t = yf.Ticker(ticker); price = None
InitFetchPrice ==
    /\ IdlePortfolio
    /\ IdleBatch
    /\ IdleNews
    /\ IdleRun
    /\ IdleRecommendation
    /\ IdleAnalysis
    /\ IdleAi
    /\ IdlePrevClose
    /\ IdleMain
    /\ IdleConfig
    /\ IdleRunPrice
    /\ price = None
    /\ consulted = <<>>
    /\ ret = None
    /\ pcPrice = "fast_info"

\* 1) fast_info
FastInfo ==
    /\ pcPrice = "fast_info"
    /\ \E a \in TwoFieldAnswers :
          /\ Consult("fast_info", a)
          /\ price' = IF a.raised THEN None ELSE PyOr(a.fields[1], a.fields[2])
    /\ pcPrice' = "info"
    /\ UNCHANGED <<ret, othersPrice>>

\* 2) info fallback
Info ==
    /\ pcPrice = "info"
    /\ IF NotPrice(price)
       THEN \E a \in TwoFieldAnswers :
               /\ Consult("info", a)
               /\ price' = IF a.raised THEN None ELSE PyOr(a.fields[1], a.fields[2])
       ELSE UNCHANGED <<price, consulted>>
    /\ pcPrice' = "history_5d"
    /\ UNCHANGED <<ret, othersPrice>>

\* 3) and 4): hist = t.history(...); if not hist.empty: price = Close[-1]
History(source, next) ==
    /\ pcPrice = source
    /\ IF NotPrice(price)
       THEN \E a \in HistoryAnswers :
               /\ Consult(source, a)
               /\ price' = IF a.raised THEN None
                           ELSE IF a.fields = <<>> THEN price
                           ELSE a.fields[1]
       ELSE UNCHANGED <<price, consulted>>
    /\ pcPrice' = next
    /\ UNCHANGED <<ret, othersPrice>>

HistoryDaily == History("history_5d", "history_1d")

HistoryIntraday == History("history_1d", "http")

\* 5) HTTP fallback Yahoo
HttpFallback ==
    /\ pcPrice = "http"
    /\ IF NotPrice(price)
       THEN \E a \in HttpAnswers :
               /\ Consult("http", a)
               /\ price' = fetch_price_yahoo_http(a)
       ELSE UNCHANGED <<price, consulted>>
    /\ pcPrice' = "return"
    /\ UNCHANGED <<ret, othersPrice>>

\* return float(price) if price else 0.0
ReturnPrice ==
    /\ pcPrice = "return"
    /\ ret' = IF Truthy(price) THEN price ELSE 0
    /\ pcPrice' = "done"
    /\ UNCHANGED <<price, consulted, othersPrice>>

NextFetchPrice ==
    \/ FastInfo
    \/ Info
    \/ HistoryDaily
    \/ HistoryIntraday
    \/ HttpFallback
    \/ ReturnPrice

SpecFetchPrice == InitFetchPrice /\ [][NextFetchPrice]_vars

(***************************************************************************)
(* Claims about fetch_price (specification SpecFetchPrice).                *)
(***************************************************************************)
\* The yield of the first consulted source that offered a non-empty,
\* non-zero price; 0 (the unknown price) when none did.
RECURSIVE FirstYield(_)
FirstYield(cs) ==
    IF cs = <<>> THEN 0
    ELSE IF Truthy(Head(cs).yield) THEN Head(cs).yield
    ELSE FirstYield(Tail(cs))

\* C4: the five sources are consulted in the fixed order fast summary,
\* general info, 5-day daily history, 1-day intraday history, HTTP quote; a
\* source is consulted only if every earlier one yielded nothing; and the
\* returned price is the value of the first source in that order that yields
\* a non-empty, non-zero result (unknown is returned only after all five
\* yielded nothing).
C4_FallbackOrder ==
    /\ Len(consulted) <= Len(SourceOrder)
    /\ \A k \in 1..Len(consulted) :
          /\ consulted[k].source = SourceOrder[k]
          /\ \A j \in 1..(k - 1) : ~Truthy(consulted[j].yield)
    /\ pcPrice = "done" =>
          /\ ret = FirstYield(consulted)
          /\ (\A k \in 1..Len(consulted) : ~Truthy(consulted[k].yield))
                => Len(consulted) = Len(SourceOrder)

\* The fast summary gave 0, the info endpoint raised, both histories were
\* empty, and the HTTP quote's price was returned.
C4_Witness ==
    /\ pcPrice = "done"
    /\ Len(consulted) = 5
    /\ consulted[1].yield = 0
    /\ consulted[2].answer.raised
    /\ consulted[3].answer = Answered(<<>>)
    /\ consulted[5].yield = MaxPrice
    /\ ret = MaxPrice

(***************************************************************************)
(* prices.py: fetch_quotes_batch.  The response raised (network, HTTP      *)
(* status, JSON), or it gave quoteResponse.result, a list of elements      *)
(* [symbol, regularMarketPrice, postMarketPrice, preMarketPrice,           *)
(* regularMarketPreviousClose], each field a number, None (absent) or      *)
(* Malformed.                                                              *)
(***************************************************************************)
QuoteBody(regular, post, pre, prev) ==
    [regularMarketPrice |-> regular, postMarketPrice |-> post,
     preMarketPrice |-> pre, regularMarketPreviousClose |-> prev]

QuoteBodies ==
    {QuoteBody(1, None, None, 2),           \* price and previous close
     QuoteBody(None, 2, 1, None),           \* post-market price only
     QuoteBody(None, None, None, 1),        \* previous close only
     QuoteBody(0, 2, None, 2),              \* a regular price of 0
     QuoteBody(Malformed, None, None, 1),   \* a price that is no number
     QuoteBody(1, None, None, Malformed),   \* a previous close that is no number
     QuoteBody(1, Malformed, None, 2)}      \* a malformed field that is not read

\* an element without a symbol (q.get("symbol") is None or "")
NoSymbol == ""

QuoteElements ==
    {[symbol |-> sym, body |-> b] : sym \in Tickers \cup {NoSymbol}, b \in QuoteBodies}

BatchResponses ==
    {Raised} \cup
    {Answered(r) : r \in UNION {[1..n -> QuoteElements] : n \in 0..MaxResults}}

\* lists of distinct tickers (main passes Ticker.unique())
TickerLists ==
    {l \in UNION {[1..n -> Tickers] : n \in 0..Cardinality(Tickers)} :
        \A i, j \in 1..Len(l) : i # j => l[i] # l[j]}

UnknownQuote == [price |-> None, prev_close |-> None]

\* for k in (regularMarketPrice, postMarketPrice, preMarketPrice): first not None
QuotePriceField(body) ==
    FirstNotNone(<<body.regularMarketPrice, body.postMarketPrice, body.preMarketPrice>>)

\* float(v) or float(prev_close) raises
ParseRaises(body) ==
    \/ QuotePriceField(body) = Malformed
    \/ body.regularMarketPreviousClose = Malformed

\* {"price": price, "prev_close": float(prev_close) if not None else None}
ParseQuote(body) ==
    [price |-> QuotePriceField(body), prev_close |-> body.regularMarketPreviousClose]

\* The elements the loop reads: those with a symbol that is in `out`.
Reads(q, requested) == q.symbol # NoSymbol /\ q.symbol \in requested

\* for q in result: ... out[symbol] = {...}; [raised |-> TRUE] when a float()
\* raised, which leaves the loop
RECURSIVE BatchLoop(_, _, _)
BatchLoop(out, result, requested) ==
    IF result = <<>> THEN [raised |-> FALSE, out |-> out]
    ELSE LET q == Head(result)
         IN  IF ~Reads(q, requested)
             THEN BatchLoop(out, Tail(result), requested)
             ELSE IF ParseRaises(q.body) THEN [raised |-> TRUE, out |-> out]
             ELSE BatchLoop([out EXCEPT ![q.symbol] = ParseQuote(q.body)],
                            Tail(result), requested)

RequestedSet(l) == {l[i] : i \in 1..Len(l)}

AllUnknown(l) == [t \in RequestedSet(l) |-> UnknownQuote]

fetch_quotes_batch(l, resp) ==
    IF l = <<>> THEN <<>>
    ELSE IF resp.raised THEN AllUnknown(l)
    ELSE LET looped == BatchLoop(AllUnknown(l), resp.fields, RequestedSet(l))
         IN  IF looped.raised THEN AllUnknown(l) ELSE looped.out

InitBatch ==
    /\ IdlePortfolio
    /\ IdlePrice
    /\ IdleNews
    /\ IdleRun
    /\ IdleRecommendation
    /\ IdleAnalysis
    /\ IdleAi
    /\ IdlePrevClose
    /\ IdleMain
    /\ IdleConfig
    /\ IdleRunPrice
    /\ tickers \in TickerLists
    /\ response = [raised |-> FALSE, fields |-> <<>>]
    /\ quotes = <<>>
    /\ pcBatch = "start"

FetchQuotesBatch ==
    /\ pcBatch = "start"
    /\ \E resp \in BatchResponses :
          /\ response' = resp
          /\ quotes' = fetch_quotes_batch(tickers, resp)
    /\ pcBatch' = "done"
    /\ UNCHANGED <<tickers, othersBatch>>

NextBatch == FetchQuotesBatch

SpecBatch == InitBatch /\ [][NextBatch]_vars

(***************************************************************************)
(* Claims about fetch_quotes_batch (specification SpecBatch).              *)
(***************************************************************************)
\* The elements of the response that are the ticker's own, in order.
OwnElements(result, t) == SelectSeq(result, LAMBDA q : q.symbol = t)

\* What the ticker's own element gives (the last one, if several): unknown
\* when it is missing.
OwnQuote(resp, t) ==
    IF resp.raised \/ OwnElements(resp.fields, t) = <<>> THEN UnknownQuote
    ELSE LET own == OwnElements(resp.fields, t)
         IN  ParseQuote(own[Len(own)].body)

\* No element of the response with the ticker's symbol is malformed.
OwnWellFormed(resp, t) ==
    resp.raised \/ \A k \in 1..Len(resp.fields) :
                      resp.fields[k].symbol = t => ~ParseRaises(resp.fields[k].body)

\* C6: fetch_quotes_batch returns one {price, prev_close} entry for every
\* requested ticker, and the entry of a ticker depends only on that ticker's
\* own element of the response: a missing or malformed element for one
\* ticker leaves the price and prev_close of every other ticker as the
\* response gave them.
C6_PerTickerIndependent ==
    pcBatch = "done" =>
        /\ DOMAIN quotes = RequestedSet(tickers)
        /\ \A t \in RequestedSet(tickers) :
              OwnWellFormed(response, t) => quotes[t] = OwnQuote(response, t)

(***************************************************************************)
(* Text.  A Python string is a sequence of one-character strings; None     *)
(* where a string is expected is PyNone.                                   *)
(***************************************************************************)
PyNone == <<"None">>

UpperToLower ==
    ("A" :> "a") @@ ("B" :> "b") @@ ("C" :> "c") @@ ("D" :> "d")
    @@ ("E" :> "e") @@ ("F" :> "f") @@ ("G" :> "g") @@ ("H" :> "h")
    @@ ("I" :> "i") @@ ("J" :> "j") @@ ("K" :> "k") @@ ("L" :> "l")
    @@ ("M" :> "m") @@ ("N" :> "n") @@ ("O" :> "o") @@ ("P" :> "p")
    @@ ("Q" :> "q") @@ ("R" :> "r") @@ ("S" :> "s") @@ ("T" :> "t")
    @@ ("U" :> "u") @@ ("V" :> "v") @@ ("W" :> "w") @@ ("X" :> "x")
    @@ ("Y" :> "y") @@ ("Z" :> "z") @@ ("Ó" :> "ó") @@ ("Ú" :> "ú")

\* str.lower(), character by character
LowerChar(c) == IF c \in DOMAIN UpperToLower THEN UpperToLower[c] ELSE c

Lower(text) == [i \in 1..Len(text) |-> LowerChar(text[i])]

IsSpace(c) == c \in {" ", "\n", "\t"}

RECURSIVE LStrip(_)
LStrip(text) ==
    IF text # <<>> /\ IsSpace(Head(text)) THEN LStrip(Tail(text)) ELSE text

RECURSIVE RStrip(_)
RStrip(text) ==
    IF text # <<>> /\ IsSpace(text[Len(text)])
    THEN RStrip(SubSeq(text, 1, Len(text) - 1))
    ELSE text

\* str.strip()
Strip(text) == RStrip(LStrip(text))

\* list[:n] and str[:n] for n >= 0
Take(list, n) == SubSeq(list, 1, IF n < Len(list) THEN n ELSE Len(list))

\* `needle in text`
Contains(needle, text) ==
    \E i \in 0..(Len(text) - Len(needle)) :
        SubSeq(text, i + 1, i + Len(needle)) = needle

\* n copies of the character c
Repeat(c, n) == [i \in 1..n |-> c]

(***************************************************************************)
(* news_sources.py                                                         *)
(***************************************************************************)
BAD_TOKENS ==
    {<<"p", "a", "t", "r", "o", "c", "i", "n", "a", "d", "o">>,
     <<"s", "p", "o", "n", "s", "o", "r", "e", "d">>,
     <<"o", "p", "i", "n", "i", "ó", "n">>,
     <<"o", "p", "i", "n", "i", "o", "n">>,
     <<"o", "p", "-", "e", "d">>,
     <<"a", "d", "v", "e", "r", "t", "o", "r", "i", "a", "l">>}

NOISE_TOKENS ==
    {<<"S", "o", "F", "i", " ", "S", "t", "a", "d", "i", "u", "m">>,
     <<"e", "s", "t", "a", "d", "i", "o", " ", "S", "o", "F", "i">>,
     <<"f", "ú", "t", "b", "o", "l">>,
     <<"p", "a", "r", "t", "i", "d", "o", " ", "p", "o", "l", "í", "t", "i", "c", "o">>,
     <<"c", "e", "l", "e", "b", "r", "i", "d", "a", "d">>}

FINANCE_HINTS ==
    {<<"e", "a", "r", "n", "i", "n", "g", "s">>,
     <<"r", "e", "s", "u", "l", "t", "a", "d", "o", "s">>,
     <<"g", "u", "i", "d", "a", "n", "c", "e">>,
     <<"i", "n", "g", "r", "e", "s", "o", "s">>,
     <<"r", "e", "v", "e", "n", "u", "e">>,
     <<"E", "P", "S">>,
     <<"d", "i", "v", "i", "d", "e", "n", "d">>,
     <<"d", "i", "v", "i", "d", "e", "n", "d", "o">>,
     <<"r", "a", "t", "i", "n", "g">>,
     <<"N", "A", "S", "D", "A", "Q">>,
     <<"N", "Y", "S", "E">>,
     <<"S", "E", "C">>,
     <<"a", "c", "c", "i", "o", "n", "e", "s">>,
     <<"s", "t", "o", "c", "k">>,
     <<"s", "h", "a", "r", "e", "s">>,
     <<"q", "u", "a", "r", "t", "e", "r">>,
     <<"Q", "1">>,
     <<"Q", "2">>,
     <<"Q", "3">>,
     <<"Q", "4">>}

\* title = a.get("title") or ""
OrEmpty(text) == IF text = PyNone THEN <<>> ELSE text

\* The body of the loop of filter_relevant_articles: whether `a` is appended.
KeepsArticle(a, ticker, company) ==
    LET t_low == Lower(OrEmpty(ticker))
        c_low == Lower(OrEmpty(company))
        lt == Lower(OrEmpty(a.title))
        ls == Lower(OrEmpty(a.summary))
        has_entity == \/ Contains(t_low, lt)
                      \/ Contains(c_low, lt)
                      \/ Contains(t_low, ls)
                      \/ Contains(c_low, ls)
        has_fin == \E h \in FINANCE_HINTS :
                      Contains(Lower(h), lt) \/ Contains(Lower(h), ls)
    IN  /\ ~\E tok \in BAD_TOKENS : Contains(tok, lt)
        /\ ~\E tok \in NOISE_TOKENS : Contains(Lower(tok), lt)
        /\ has_entity \/ has_fin

TitleNormalized_NoLower(title) == Take(Strip(title), 50)

\* article.get("title", "").lower().strip()[:50]   (title is a string here)
TitleNormalized(title) == Take(Strip(Lower(title)), 50)

(***************************************************************************)
(* The articles the model's feeds are made of.  A list of the model holds  *)
(* the identifiers of its articles; EntryOf gives the provider's entry and *)
(* ItemOf the dict the fetcher builds from it.                             *)
(***************************************************************************)
TickerText == <<"M", "U">>

CompanyTexts == {<<"M", "i", "c", "r", "o", "n">>, <<>>}

Entry(title, summary, published) ==
    [title |-> title, summary |-> summary, published |-> published]

GoogleIds == {"G1", "G2", "G3", "G4", "G5"}

MarketauxIds == {"M1", "M2", "M3", "M4", "M5"}

\* Google News entries (title, summary, published) and MarketAux articles
\* (title, description, published_at)
EntryOf ==
    ("G1" :> Entry(<<"M", "U", " ">> \o Repeat("z", 47) \o <<"x">>, <<>>, 3))
    @@ ("G2" :> Entry(<<"m", "u", " ">> \o Repeat("z", 47) \o <<"y">>, <<>>, 2))
    @@ ("G3" :> Entry(<<"S", "p", "o", "n", "s", "o", "r", "e", "d", " ", "M", "U">>, <<>>, 1))
    @@ ("G4" :> Entry(<<"w", "e", "a", "t", "h", "e", "r">>, <<>>, 4))
    @@ ("G5" :> Entry(<<" ", "M", "U", " ", "f", "ú", "t", "b", "o", "l", " ">>, <<>>, 5))
    @@ ("M1" :> Entry(<<" ", "m", "u", " ">> \o Repeat("z", 46) \o <<"p">>, <<>>, 1))
    @@ ("M2" :> Entry(<<" ", "m", "u", " ">> \o Repeat("z", 46) \o <<"q">>, <<>>, 4))
    @@ ("M3" :> Entry(PyNone, <<"M", "U">>, 2))
    @@ ("M4" :> Entry(<<" ", " ">>, <<"e", "a", "r", "n", "i", "n", "g", "s">>, 3))
    @@ ("M5" :> Entry(<<"M", "U", " ">> \o Repeat("z", 47) \o <<"w">>, <<>>, 6))

\* title = html.unescape(getattr(e, "title", "")).strip(), ...
GoogleItem(e) ==
    [title |-> Strip(e.title),
     summary |-> Strip(e.summary),
     published |-> e.published,
     feed |-> "google_news"]

\* "title": article.get("title", ""), ...
MarketauxItem(e) ==
    [title |-> e.title,
     summary |-> e.summary,
     published |-> e.published,
     feed |-> "marketaux"]

ItemOf ==
    [id \in GoogleIds \cup MarketauxIds |->
        IF id \in GoogleIds THEN GoogleItem(EntryOf[id]) ELSE MarketauxItem(EntryOf[id])]

\* Tables of the text operators over the model's articles, computed once
\* (the operators scan every offset of a title for every token).
KeepsTable ==
    [id \in DOMAIN ItemOf, c \in CompanyTexts |-> KeepsArticle(ItemOf[id], TickerText, c)]

TitleKeyTable ==
    [id \in DOMAIN ItemOf |->
        IF ItemOf[id].title = PyNone THEN <<>> ELSE TitleNormalized(ItemOf[id].title)]

FeedsOf(ids) == UNION {[1..n -> ids] : n \in 0..MaxFeed}

\* feedparser.parse(url): raises, or has .entries
GoogleAnswers == {Raised} \cup {Answered(f) : f \in FeedsOf(GoogleIds)}

\* requests.get(...).json(): raises (network, status), or has "data"
MarketauxAnswers == {Raised} \cup {Answered(f) : f \in FeedsOf(MarketauxIds)}

Queries ==
    [ticker : {TickerText}, company : CompanyTexts,
     max_per_source : 0..MaxPerSource, marketaux_api_key : BOOLEAN]

FirstEntries_All(entries, max_articles) == entries

\* feed.entries[:max_articles], data.get("data", [])[:max_articles]
FirstEntries(entries, max_articles) == Take(entries, max_articles)

\* for e in feed.entries[:max_articles]: items.append({...}); [] on exception
fetch_google_news(answer, max_articles) ==
    IF answer.raised THEN <<>>
    ELSE LET es == FirstEntries(answer.fields, max_articles)
         IN  es

\* if not api_key: return []; for article in data["data"][:max_articles]: ...
fetch_marketaux_news(answer, api_key, max_articles) ==
    IF ~api_key \/ answer.raised THEN <<>>
    ELSE LET es == FirstEntries(answer.fields, max_articles)
         IN  es

\* for a in articles: ... if has_entity or has_fin: out.append(a)
filter_relevant_articles(articles, ticker, company) ==
    SelectSeq(articles, LAMBDA id : KeepsTable[id, company])

\* for article in filtered: if title_normalized and title_normalized not in
\* seen_titles: ...   (seen_titles are the keys of the articles kept so far)
RECURSIVE Deduplicate(_, _)
Deduplicate(unique, rest) ==
    IF rest = <<>> THEN unique
    ELSE LET key == TitleKeyTable[Head(rest)]
             seen == {TitleKeyTable[unique[k]] : k \in 1..Len(unique)}
         IN  IF key # <<>> /\ key \notin seen
             THEN Deduplicate(Append(unique, Head(rest)), Tail(rest))
             ELSE Deduplicate(unique, Tail(rest))

\* article.get("title", "").lower() of a title that is None raises.  The loop
\* reads every article of `filtered`.
DedupRaises(articles) ==
    \E k \in 1..Len(articles) : ItemOf[articles[k]].title = PyNone

\* unique_articles.sort(key=published, reverse=True): stable; `published`
\* is the rank of the provider's string in lexicographic order.
RECURSIVE InsertByPublished(_, _)
InsertByPublished(sorted, a) ==
    IF sorted = <<>> THEN <<a>>
    ELSE IF ItemOf[Head(sorted)].published < ItemOf[a].published
         THEN <<a>> \o sorted
         ELSE <<Head(sorted)>> \o InsertByPublished(Tail(sorted), a)

RECURSIVE SortByPublished(_, _)
SortByPublished(sorted, rest) ==
    IF rest = <<>> THEN sorted
    ELSE SortByPublished(InsertByPublished(sorted, Head(rest)), Tail(rest))

aggregate_news_from_all_sources(q, answers) ==
    LET google == fetch_google_news(answers.google, q.max_per_source)
        marketaux == IF q.marketaux_api_key
                     THEN fetch_marketaux_news(answers.marketaux, q.marketaux_api_key,
                                               q.max_per_source)
                     ELSE <<>>
        all_articles == google \o marketaux
        relevant == filter_relevant_articles(all_articles, q.ticker, q.company)
    IN  [google_articles |-> google,
         marketaux_articles |-> marketaux,
         filtered |-> relevant,
         raised |-> DedupRaises(relevant),
         result |-> IF DedupRaises(relevant) THEN <<>>
                    ELSE Take(SortByPublished(<<>>, Deduplicate(<<>>, relevant)),
                              q.max_per_source * 2)]

InitNews ==
    /\ IdlePortfolio
    /\ IdlePrice
    /\ IdleBatch
    /\ IdleRun
    /\ IdleRecommendation
    /\ IdleAnalysis
    /\ IdleAi
    /\ IdlePrevClose
    /\ IdleMain
    /\ IdleConfig
    /\ IdleRunPrice
    /\ query = <<>>
    /\ feeds = <<>>
    /\ google_articles = <<>>
    /\ marketaux_articles = <<>>
    /\ filtered = <<>>
    /\ news = <<>>
    /\ newsRaised = FALSE
    /\ pcNews = "start"

AggregateNews ==
    /\ pcNews = "start"
    /\ \E q \in Queries, g \in GoogleAnswers :
       \E m \in IF q.marketaux_api_key THEN MarketauxAnswers ELSE {NotCalled} :
          LET answers == [google |-> g, marketaux |-> m]
              r == aggregate_news_from_all_sources(q, answers)
          IN  /\ query' = q
              /\ feeds' = answers
              /\ google_articles' = r.google_articles
              /\ marketaux_articles' = r.marketaux_articles
              /\ filtered' = r.filtered
              /\ news' = r.result
              /\ newsRaised' = r.raised
    /\ pcNews' = "done"
    /\ UNCHANGED othersNews

NextNews == AggregateNews

SpecNews == InitNews /\ [][NextNews]_vars

(***************************************************************************)
(* Claims about the news aggregation (specification SpecNews).             *)
(***************************************************************************)
\* The position of the first article of `list` whose key (by `keys`) is `key`.
FirstWithKey(list, keys, key) ==
    CHOOSE k \in 1..Len(list) :
        /\ keys[list[k]] = key
        /\ \A j \in 1..(k - 1) : keys[list[j]] # key

\* No two articles of `news` share a key, and each is the first article of
\* `filtered` (Google News before MarketAux, feed order within a source)
\* that has its key.
DistinctAndFirst(keys) ==
    /\ \A i, j \in 1..Len(news) : i # j => keys[news[i]] # keys[news[j]]
    /\ \A i \in 1..Len(news) :
          filtered[FirstWithKey(filtered, keys, keys[news[i]])] = news[i]

\* the lowercased first 50 characters of a title
C7_LowerPrefix ==
    [id \in DOMAIN ItemOf |-> Take(Lower(OrEmpty(ItemOf[id].title)), 50)]

\* the first 50 characters of the lowercased title stripped of the white
\* space around it
C7_StrippedPrefix ==
    [id \in DOMAIN ItemOf |-> Take(Strip(Lower(OrEmpty(ItemOf[id].title))), 50)]

C8_OutputCap ==
    pcNews = "done" =>
        /\ Len(news) <= 2 * query.max_per_source
        /\ Len(google_articles) <= query.max_per_source
        /\ Len(marketaux_articles) <= query.max_per_source

\* Both feeds hold more entries than max_per_source, and the result has
\* exactly 2 * max_per_source articles.
C8_Witness ==
    /\ pcNews = "done"
    /\ query.max_per_source >= 1
    /\ Len(feeds.google.fields) > query.max_per_source
    /\ Len(feeds.marketaux.fields) > query.max_per_source
    /\ Len(news) = 2 * query.max_per_source

\* the articles of the list, as a bag (the result is sorted by date)
SameArticles(a, b) ==
    /\ Len(a) = Len(b)
    /\ \A id \in DOMAIN ItemOf :
          Cardinality({k \in 1..Len(a) : a[k] = id})
              = Cardinality({k \in 1..Len(b) : b[k] = id})

\* C9: a news source that fails contributes an empty list and the
\* aggregation still returns the filtered, deduplicated articles of the
\* other source; the aggregation never raises, whatever articles the sources
\* return.
C9_NeverRaises ==
    pcNews = "done" =>
        /\ ~newsRaised
        /\ feeds.google.raised =>
              /\ google_articles = <<>>
              /\ SameArticles(news, Deduplicate(<<>>,
                     filter_relevant_articles(marketaux_articles,
                                              query.ticker, query.company)))
        /\ feeds.marketaux.raised =>
              /\ marketaux_articles = <<>>
              /\ SameArticles(news, Deduplicate(<<>>,
                     filter_relevant_articles(google_articles,
                                              query.ticker, query.company)))

\* ticker_alias of fetch_google_news, for the model's ticker
TickerAliases == {<<"M", "i", "c", "r", "o", "n", " ", "T", "e", "c", "h", "n", "o", "l", "o", "g", "y">>}

\* `text` mentions `name`: a name is at least one character
Mentions(name, text) == name # <<>> /\ Contains(Lower(name), Lower(text))

\* The article may be kept: no sponsor/opinion marker and no noise phrase in
\* its title, and its title or summary mentions the ticker, the company, an
\* alias of the ticker or a finance keyword.
C10_MayKeep ==
    [id \in DOMAIN ItemOf, c \in CompanyTexts |->
        LET title == OrEmpty(ItemOf[id].title)
            summary == OrEmpty(ItemOf[id].summary)
        IN  /\ \A tok \in BAD_TOKENS \cup NOISE_TOKENS : ~Mentions(tok, title)
            /\ \E name \in {TickerText, c} \cup TickerAliases \cup FINANCE_HINTS :
                  Mentions(name, title) \/ Mentions(name, summary)]

\* C10: for every ticker and company string (including an empty company
\* name), filter_relevant_articles keeps an article only if its title has no
\* sponsor/opinion marker and no noise phrase and its title or summary
\* mentions the ticker, the company name, an alias or a finance keyword.
C10_KeepsOnlyRelevant ==
    pcNews = "done" =>
        \A k \in 1..Len(filtered) : C10_MayKeep[filtered[k], query.company]

InNews(id) == \E k \in 1..Len(news) : news[k] = id

\* C30: an article that passed the relevance filter is missing from the
\* result only because an earlier article has the same title prefix or
\* because the result is full; a relevant article with an empty or
\* whitespace-only title is kept.
C30_DroppedOnlyAsDuplicateOrOverCap ==
    (pcNews = "done" /\ ~newsRaised) =>
        \A k \in 1..Len(filtered) :
            ~InNews(filtered[k]) =>
                \/ \E j \in 1..(k - 1) :
                      TitleKeyTable[filtered[j]] = TitleKeyTable[filtered[k]]
                \/ Len(news) = query.max_per_source * 2

\* the same, for the relevant articles whose title is not blank
C30_TitledArticles ==
    (pcNews = "done" /\ ~newsRaised) =>
        \A k \in 1..Len(filtered) :
            (~InNews(filtered[k]) /\ TitleKeyTable[filtered[k]] # <<>>) =>
                \/ \E j \in 1..(k - 1) :
                      TitleKeyTable[filtered[j]] = TitleKeyTable[filtered[k]]
                \/ Len(news) = query.max_per_source * 2

(***************************************************************************)
(* Specification of the rebalancer: every holdings table of the bounds,    *)
(* then one call of calculate_portfolio_values or of                       *)
(* calculate_rebalancing_actions with any price map and thresholds.        *)
(***************************************************************************)
Rows == [Ticker : Tickers, Qty : Quantities, TargetWeight : TargetWeights]

HoldingsTables == UNION {[1..n -> Rows] : n \in 1..MaxRows}

PriceMaps == [Tickers -> {None} \cup PriceValues]

\* a portfolio worth 10,000: AAA holds 60% of it and BBB 40%, both with a
\* target of 50%, priced 100, under the default thresholds 100 and 5
LargeHoldings ==
    <<[Ticker |-> "AAA", Qty |-> 60, TargetWeight |-> 50],
      [Ticker |-> "BBB", Qty |-> 40, TargetWeight |-> 50]>>

PriceMapsOf(h) == IF h = LargeHoldings THEN {[t \in Tickers |-> 100]} ELSE PriceMaps

MinTradeValuesOf(h) == IF h = LargeHoldings THEN {100} ELSE MinTradeValues

MaxDeviationsOf(h) == IF h = LargeHoldings THEN {5} ELSE MaxDeviations

InitPortfolio ==
    /\ IdlePrice
    /\ IdleBatch
    /\ IdleNews
    /\ IdleRun
    /\ IdleRecommendation
    /\ IdleAnalysis
    /\ IdleAi
    /\ IdlePrevClose
    /\ IdleMain
    /\ IdleConfig
    /\ IdleRunPrice
    /\ holdings \in HoldingsTables \cup {LargeHoldings}
    /\ prices = [t \in Tickers |-> None]
    /\ min_trade_value = 0
    /\ max_deviation = 0
    /\ df = <<>>
    /\ actions = <<>>
    /\ pcPortfolio = "start"

CalculatePortfolioValues ==
    /\ pcPortfolio = "start"
    /\ \E p \in PriceMapsOf(holdings) :
          /\ prices' = p
          /\ df' = calculate_portfolio_values(holdings, p)
    /\ pcPortfolio' = "valued"
    /\ UNCHANGED <<holdings, min_trade_value, max_deviation, actions>>
    /\ UNCHANGED othersPortfolio

CalculateRebalancingActions ==
    /\ pcPortfolio = "start"
    /\ \E p \in PriceMapsOf(holdings), mintrade \in MinTradeValuesOf(holdings),
          maxdev \in MaxDeviationsOf(holdings) :
          /\ prices' = p
          /\ min_trade_value' = mintrade
          /\ max_deviation' = maxdev
          /\ df' = calculate_portfolio_values(holdings, p)
          /\ actions' = calculate_rebalancing_actions(holdings, p, mintrade, maxdev)
    /\ pcPortfolio' = "rebalanced"
    /\ UNCHANGED holdings
    /\ UNCHANGED othersPortfolio

NextPortfolio == CalculatePortfolioValues \/ CalculateRebalancingActions

SpecPortfolio == InitPortfolio /\ [][NextPortfolio]_vars

(***************************************************************************)
(* Claims about the rebalancer (specification SpecPortfolio).              *)
(***************************************************************************)
RatAdd(a, b) ==
    IF a.d = b.d THEN Rat(a.n + b.n, a.d) ELSE Rat(a.n * b.d + b.n * a.d, a.d * b.d)

RECURSIVE RatSum(_)
RatSum(s) == IF s = <<>> THEN Rat(0, 1) ELSE RatAdd(Head(s), RatSum(Tail(s)))

\* C1: every VENDER action returned by calculate_rebalancing_actions has
\* qty <= the Qty of the holding (row) it was computed from.
C1_SellAtMostHeld ==
    pcPortfolio = "rebalanced" =>
        \A k \in 1..Len(actions) :
            actions[k].action = "VENDER" =>
                RatLe(actions[k].qty, Rat(holdings[actions[k].row].Qty, 1))

\* A sale whose value_diff/price exceeds the quantity held (a negative target
\* weight), so that the cap at the held quantity is what decides qty.
C1_Witness ==
    /\ pcPortfolio = "rebalanced"
    /\ \E k \in 1..Len(actions) :
          /\ actions[k].action = "VENDER"
          /\ RatLt(Rat(holdings[actions[k].row].Qty, 1),
                   RatAbs(QtyDiff(df[actions[k].row], TotalValue(df))))
          /\ RatEq(actions[k].qty, Rat(holdings[actions[k].row].Qty, 1))
          /\ holdings[actions[k].row].Qty > 0

\* C2: after calculate_portfolio_values, when the total value is > 0 the
\* CurrentWeight of the holdings with price > 0 sum to 100, and every holding
\* whose price is missing or 0 has CurrentValue 0 and CurrentWeight 0.
C2_WeightsSumTo100 ==
    pcPortfolio # "start" =>
        /\ TotalValue(df) > 0 =>
              RatEq(RatSum([i \in 1..Len(df) |->
                              IF prices[df[i].Ticker] \notin {None, 0}
                              THEN df[i].CurrentWeight ELSE Rat(0, 1)]),
                    Rat(100, 1))
        /\ \A i \in 1..Len(df) :
              prices[df[i].Ticker] \in {None, 0} =>
                  /\ df[i].CurrentValue = 0
                  /\ RatEq(df[i].CurrentWeight, Rat(0, 1))

\* A held position whose price is missing next to a priced one, after
\* calculate_portfolio_values.
C2_Witness ==
    /\ pcPortfolio = "valued"
    /\ TotalValue(df) > 0
    /\ \E i, j \in 1..Len(df) :
          /\ prices[df[i].Ticker] = None
          /\ df[i].Qty > 0
          /\ df[j].CurrentValue > 0
          /\ RatEq(df[j].CurrentWeight, Rat(100, 1))

\* C3: calculate_rebalancing_actions returns the empty list when the total
\* portfolio value is 0, and returns the empty list when every holding's
\* current weight is within max_deviation of its target weight
\* (|current_weight - target_weight| <= max_deviation).
C3_EmptyWhenBalanced ==
    pcPortfolio = "rebalanced" =>
        /\ TotalValue(df) = 0 => actions = <<>>
        /\ (\A i \in 1..Len(df) :
               RatLe(RatAbs(Deviation(df[i])), Rat(max_deviation, 1)))
              => actions = <<>>

\* C12: the list returned by calculate_rebalancing_actions is ordered by
\* |deviation| non-increasing: for consecutive actions a, b of the list,
\* |a.deviation| >= |b.deviation|.
C12_SortedByDeviation ==
    pcPortfolio = "rebalanced" =>
        \A k \in 1..(Len(actions) - 1) :
            RatLe(RatAbs(actions[k + 1].deviation), RatAbs(actions[k].deviation))

\* Two actions, the one of the later row with the larger |deviation|, so that
\* the sort has moved it to the front.
C12_Witness ==
    /\ pcPortfolio = "rebalanced"
    /\ Len(actions) = 2
    /\ actions[1].row > actions[2].row
    /\ RatLt(RatAbs(actions[2].deviation), RatAbs(actions[1].deviation))

\* C15: for every min_trade_value >= 0 and max_deviation >= 0, every action
\* returned by calculate_rebalancing_actions has action COMPRAR or VENDER,
\* qty > 0 and value > 0.
C15_PositiveQtyAndValue ==
    pcPortfolio = "rebalanced" =>
        \A k \in 1..Len(actions) :
            /\ actions[k].action \in {"COMPRAR", "VENDER"}
            /\ RatLt(Rat(0, 1), actions[k].qty)
            /\ RatLt(Rat(0, 1), actions[k].value)

\* the holding of row i of df has an action
ActedOn(i) == \E k \in 1..Len(actions) : actions[k].row = i

\* |current_weight - target_weight| >= max_deviation, for row i of df
DeviationReached(i) ==
    Abs(df[i].CurrentWeight.n - df[i].TargetWeight * df[i].CurrentWeight.d)
        >= max_deviation * df[i].CurrentWeight.d

\* |target_value - current_value| >= min_trade_value, for row i of df
TradeReached(i) ==
    Abs(df[i].TargetWeight * TotalValue(df) - 100 * df[i].CurrentValue)
        >= 100 * min_trade_value

ValueDiffOf(a) ==
    Rat(holdings[a.row].TargetWeight * TotalValue(df)
            - 100 * holdings[a.row].Qty * prices[holdings[a.row].Ticker],
        100)

\* x / price of the holding of action a
PerShare(x, a) == Rat(x.n, x.d * prices[holdings[a.row].Ticker])

\* C23: with value_diff = target_weight/100 x total - quantity x price, a
\* COMPRAR action has qty = value_diff/price and value = value_diff; a VENDER
\* action has value = |value_diff| and qty = min(|value_diff|/price, held
\* quantity).
C23_QtyAndValueOfAction ==
    pcPortfolio = "rebalanced" =>
        \A k \in 1..Len(actions) :
            LET a == actions[k]
            IN  /\ a.action = "COMPRAR" =>
                      /\ RatEq(a.qty, PerShare(ValueDiffOf(a), a))
                      /\ RatEq(a.value, ValueDiffOf(a))
                /\ a.action = "VENDER" =>
                      /\ RatEq(a.value, RatAbs(ValueDiffOf(a)))
                      /\ RatEq(a.qty,
                               RatMin(PerShare(RatAbs(ValueDiffOf(a)), a),
                                      Rat(holdings[a.row].Qty, 1)))

\* the holding at 60% against a target of 50% in the portfolio worth 10,000
\* gives VENDER with deviation 10, value 1000 and qty 1000/100 = 10
C23_Witness ==
    /\ pcPortfolio = "rebalanced"
    /\ holdings = LargeHoldings
    /\ TotalValue(df) = 10000
    /\ \E k \in 1..Len(actions) :
          /\ actions[k].ticker = "AAA"
          /\ actions[k].action = "VENDER"
          /\ RatEq(actions[k].current_weight, Rat(60, 1))
          /\ RatEq(actions[k].deviation, Rat(10, 1))
          /\ RatEq(actions[k].value, Rat(1000, 1))
          /\ RatEq(actions[k].qty, Rat(10, 1))

RECURSIVE Gcd(_, _)
Gcd(a, b) == IF b = 0 THEN a ELSE Gcd(b, a % b)

\* a rational in lowest terms (its denominator is positive)
Lowest(r) == Rat(r.n \div Gcd(Abs(r.n), r.d), r.d \div Gcd(Abs(r.n), r.d))

\* C26: with max_deviation > 0, a COMPRAR action has deviation < 0, a VENDER
\* action has deviation > 0, and the value of an action is
\* |deviation|/100 x total portfolio value.
C26_DirectionFollowsDeviation ==
    (pcPortfolio = "rebalanced" /\ max_deviation > 0) =>
        \A k \in 1..Len(actions) :
            /\ actions[k].action = "COMPRAR" => RatLt(actions[k].deviation, Rat(0, 1))
            /\ actions[k].action = "VENDER" => RatLt(Rat(0, 1), actions[k].deviation)
            /\ Lowest(actions[k].value) =
                  Lowest(Rat(Abs(actions[k].deviation.n) * TotalValue(df),
                             100 * actions[k].deviation.d))

\* one rebalancing with max_deviation > 0 that buys one holding and sells
\* the other
C26_Witness ==
    /\ pcPortfolio = "rebalanced"
    /\ max_deviation > 0
    /\ \E j, k \in 1..Len(actions) :
          /\ actions[j].action = "COMPRAR"
          /\ actions[k].action = "VENDER"
          /\ RatLt(Rat(0, 1), actions[j].value)

(***************************************************************************)
(* ai_analysis.py: get_ai_analysis.  The completion call raised with a     *)
(* message, or it answered with a text.                                    *)
(***************************************************************************)
LowerToUpper ==
    ("a" :> "A") @@ ("b" :> "B") @@ ("c" :> "C") @@ ("d" :> "D")
    @@ ("e" :> "E") @@ ("f" :> "F") @@ ("g" :> "G") @@ ("h" :> "H")
    @@ ("i" :> "I") @@ ("j" :> "J") @@ ("k" :> "K") @@ ("l" :> "L")
    @@ ("m" :> "M") @@ ("n" :> "N") @@ ("o" :> "O") @@ ("p" :> "P")
    @@ ("q" :> "Q") @@ ("r" :> "R") @@ ("s" :> "S") @@ ("t" :> "T")
    @@ ("u" :> "U") @@ ("v" :> "V") @@ ("w" :> "W") @@ ("x" :> "X")
    @@ ("y" :> "Y") @@ ("z" :> "Z") @@ ("ó" :> "Ó") @@ ("ú" :> "Ú")
    @@ ("í" :> "Í") @@ ("á" :> "Á") @@ ("é" :> "É")

\* str.upper(), character by character
Upper(text) ==
    [i \in 1..Len(text) |->
        IF text[i] \in DOMAIN LowerToUpper THEN LowerToUpper[text[i]] ELSE text[i]]

\* str.find(needle) + 1: the position of the first occurrence, 0 if none
IndexOf(needle, text) ==
    IF Contains(needle, text)
    THEN CHOOSE i \in 1..(Len(text) - Len(needle) + 1) :
            /\ SubSeq(text, i, i + Len(needle) - 1) = needle
            /\ \A j \in 1..(i - 1) : SubSeq(text, j, j + Len(needle) - 1) # needle
    ELSE 0

\* text.split(sep)[0]
SplitHead(sep, text) ==
    IF IndexOf(sep, text) = 0 THEN text ELSE SubSeq(text, 1, IndexOf(sep, text) - 1)

\* text.split(sep)[1], for a text that contains sep
SplitSecond(sep, text) ==
    SplitHead(sep, SubSeq(text, IndexOf(sep, text) + Len(sep), Len(text)))

BOLD == <<"*", "*">>

SUMMARY_MARKER ==
    <<"*", "*", "R", "e", "s", "u", "m", "e", "n", " ", "d", "e", "l", " ",
      "D", "í", "a", ":", "*", "*">>

RECOMMENDATION_MARKER ==
    <<"*", "*", "R", "e", "c", "o", "m", "e", "n", "d", "a", "c", "i", "ó",
      "n", ":", "*", "*">>

RISKS_MARKER ==
    <<"*", "*", "R", "i", "e", "s", "g", "o", "s", " ", "y", " ", "C", "a",
      "t", "a", "l", "i", "z", "a", "d", "o", "r", "e", "s", ":", "*",
      "*">>

COMPRAR == <<"C", "O", "M", "P", "R", "A", "R">>

VENDER == <<"V", "E", "N", "D", "E", "R">>

MANTENER == <<"M", "A", "N", "T", "E", "N", "E", "R">>

SEE_FULL_ANALYSIS ==
    <<"V", "e", "r", " ", "a", "n", "á", "l", "i", "s", "i", "s", " ", "c",
      "o", "m", "p", "l", "e", "t", "o">>

NOT_AVAILABLE == <<"N", "o", " ", "d", "i", "s", "p", "o", "n", "i", "b", "l", "e">>

NO_API_KEY_SUMMARY ==
    <<"E", "r", "r", "o", "r", ":", " ", "N", "o", " ", "s", "e", " ", "p",
      "r", "o", "p", "o", "r", "c", "i", "o", "n", "ó", " ", "A", "P",
      "I", " ", "k", "e", "y", " ", "d", "e", " ", "O", "p", "e", "n",
      "A", "I">>

CONFIGURATION_ERROR == <<"E", "r", "r", "o", "r", " ", "d", "e", " ", "c", "o", "n", "f", "i",
      "g", "u", "r", "a", "c", "i", "ó", "n">>

ERROR_SUMMARY_PREFIX ==
    <<"E", "r", "r", "o", "r", " ", "a", "l", " ", "o", "b", "t", "e", "n",
      "e", "r", " ", "a", "n", "á", "l", "i", "s", "i", "s", ":", " ">>

ERROR_TEXT_PREFIX == <<"E", "r", "r", "o", "r", ":", " ">>

\* recommendation = "MANTENER"; if the marker is in full_text: ...
ParseRecommendation(full_text) ==
    IF ~Contains(RECOMMENDATION_MARKER, full_text) THEN MANTENER
    ELSE LET rec_section ==
                 Strip(SplitHead(BOLD, SplitSecond(RECOMMENDATION_MARKER, full_text)))
         IN  IF Contains(COMPRAR, Upper(rec_section)) THEN COMPRAR
             ELSE IF Contains(VENDER, Upper(rec_section)) THEN VENDER
             ELSE MANTENER

\* summary = ""; if the marker is in full_text: ...
ParseSummary(full_text) ==
    IF ~Contains(SUMMARY_MARKER, full_text) THEN <<>>
    ELSE Strip(SplitHead(BOLD, SplitSecond(SUMMARY_MARKER, full_text)))

\* risks = ""; if the marker is in full_text: ...
ParseRisks(full_text) ==
    IF ~Contains(RISKS_MARKER, full_text) THEN <<>>
    ELSE Strip(SplitSecond(RISKS_MARKER, full_text))

\* `a or b` on strings
StrOr(a, b) == IF a # <<>> THEN a ELSE b

\* the dict returned for an answered completion
ParseCompletion(content) ==
    LET full_text == Strip(content)
    IN  [summary |-> StrOr(ParseSummary(full_text), Take(full_text, 200)),
         recommendation |-> ParseRecommendation(full_text),
         risks |-> StrOr(ParseRisks(full_text), SEE_FULL_ANALYSIS),
         full_text |-> full_text]

\* get_ai_analysis without its try/except around the call
get_ai_analysis_NoExcept(c) == ParseCompletion(c.fields)

\* c is [api_key, raised, fields]: fields is the message of the exception
\* when the call raised, the content of the first choice otherwise
get_ai_analysis(c) ==
    IF ~c.api_key
    THEN [summary |-> NO_API_KEY_SUMMARY,
          recommendation |-> MANTENER,
          risks |-> NOT_AVAILABLE,
          full_text |-> CONFIGURATION_ERROR]
    ELSE IF c.raised
    THEN [summary |-> ERROR_SUMMARY_PREFIX \o c.fields,
          recommendation |-> MANTENER,
          risks |-> NOT_AVAILABLE,
          full_text |-> ERROR_TEXT_PREFIX \o c.fields]
    ELSE ParseCompletion(c.fields)

(***************************************************************************)
(* news_digest_enhanced.py: main, after load_portfolio.  holdings is       *)
(* positions_df (one row per ticker, cash rows removed); the answer of the *)
(* multi-symbol quote request, the answers of fetch_prev_close and the     *)
(* number of articles found for a ticker are drawn when main asks.         *)
(***************************************************************************)
DEFAULT_MIN_TRADE_VALUE == 100

DEFAULT_MAX_DEVIATION == 5

RunQuantities == {1, 3}

RunTargetWeights == {0, 50}

RunPrevCloses == {0, 100}

RunArticleCounts == {0, 1}

\* the completion call of one ticker: it raises, or it answers; main always
\* has a key (the module refuses to load without OPENAI_API_KEY)
RunFailure ==
    [api_key |-> TRUE, raised |-> TRUE, fields |-> <<"t", "i", "m", "e", "o", "u", "t">>]

RunAnswer ==
    [api_key |-> TRUE, raised |-> FALSE, fields |-> RECOMMENDATION_MARKER \o <<" ">> \o COMPRAR]

\* what get_technical_analysis, get_fundamental_data and the completion call
\* give for a ticker
RunIndicators ==
    {[rsi |-> None, recommendation |-> "", completion |-> RunAnswer],
     [rsi |-> 80, recommendation |-> "sell", completion |-> RunFailure]}

\* ai_result = get_ai_analysis(..., api_key=OPENAI_API_KEY), per completion
RunAiResults == [c \in {RunAnswer, RunFailure} |-> get_ai_analysis(c)]

RunRows == [Ticker : Tickers, Qty : RunQuantities, TargetWeight : RunTargetWeights]

RunPositions ==
    {h \in UNION {[1..n -> RunRows] : n \in 1..MaxRows} :
        \A i, j \in 1..Len(h) : i # j => h[i].Ticker # h[j].Ticker}

RunQuoteBodies ==
    {QuoteBody(100, None, None, 200),        \* price and previous close
     QuoteBody(200, None, None, 100),
     QuoteBody(None, None, None, 100),       \* previous close only
     QuoteBody(100, None, None, None),       \* price only
     QuoteBody(Malformed, None, None, 100)}  \* a price that is no number

\* the ticker's element of quoteResponse.result, or none
RunElementsOf(t) == {<<>>} \cup {<<[symbol |-> t, body |-> b]>> : b \in RunQuoteBodies}

RunResponses ==
    {Raised} \cup
    {Answered(a \o b) : a \in RunElementsOf("AAA"), b \in RunElementsOf("BBB")}

\* positions_df["Ticker"].unique().tolist()
RECURSIVE UniqueTickers(_, _)
UniqueTickers(seen, h) ==
    IF h = <<>> THEN seen
    ELSE IF Head(h).Ticker \in RequestedSet(seen)
         THEN UniqueTickers(seen, Tail(h))
         ELSE UniqueTickers(Append(seen, Head(h).Ticker), Tail(h))

\* positions_df[positions_df["Ticker"] == t]["Qty"].iloc[0]
RECURSIVE RowOfTicker(_, _)
RowOfTicker(h, t) == IF Head(h).Ticker = t THEN Head(h) ELSE RowOfTicker(Tail(h), t)

\* {ticker: (quotes.get(ticker, {}).get("price") or 0.0) for ticker in tickers}
PricesOf(l, q) ==
    [t \in Tickers |-> IF t \in RequestedSet(l) THEN PyOr(q[t].price, 0) ELSE None]

\* {ticker: quotes.get(ticker, {}).get("prev_close") for ticker in tickers}
PrevClosesOf(l, q) ==
    [t \in Tickers |-> IF t \in RequestedSet(l) THEN q[t].prev_close ELSE None]

\* sum(prices[t] * Qty of t for t in tickers if prices[t] > 0)
TotalPortfolioValue(l, h, p) ==
    SumSeq([k \in 1..Len(l) |->
              IF p[l[k]] > 0 THEN p[l[k]] * RowOfTicker(h, l[k]).Qty ELSE 0])

\* compute_position_metrics(qty, avg_cost, price)["value"]
PositionValue(qty, p) == IF qty > 0 /\ p > 0 THEN qty * p ELSE 0

\* process_stock_data: `fallback` is what fetch_prev_close answers when it is
\* called, `articles` the number of articles the aggregation returns.
process_stock_data(ticker, row, p, pc, total, fallback, articles, indicators) ==
    LET stock_price == p[ticker]
        prev_close == IF pc[ticker] = None THEN fallback ELSE pc[ticker]
        value == PositionValue(row.Qty, stock_price)
    IN  [ticker |-> ticker,
         price |-> stock_price,
         prev_close |-> prev_close,
         change_pct |-> IF stock_price > 0 /\ prev_close > 0
                        THEN Rat((stock_price - prev_close) * 100, prev_close)
                        ELSE Rat(0, 1),
         quantity |-> row.Qty,
         position_value |-> value,
         current_weight |-> IF total > 0 THEN Rat(value * 100, total) ELSE Rat(0, 1),
         target_weight |-> row.TargetWeight,
         recommendation |-> RunAiResults[indicators.completion].recommendation,
         news_summary |-> RunAiResults[indicators.completion].full_text,
         risks |-> RunAiResults[indicators.completion].risks,
         articles |-> articles,
         technical_data |-> indicators.rsi,
         fundamental_data |-> indicators.recommendation]

\* an action without the "warning" key
NoWarning == ""

\* fund.get("recommendation") is None (or the key is absent)
NoRecommendation == ""

\* the warning after the technical context: `if rsi:` then the two RSI tests
TechnicalWarning(action, rsi) ==
    IF ~Truthy(rsi) THEN NoWarning
    ELSE IF action = "COMPRAR" /\ rsi > 70 THEN "RSI sobrecompra - considerar esperar"
    ELSE IF action = "VENDER" /\ rsi < 30 THEN "RSI sobreventa - podría rebotar"
    ELSE NoWarning

\* the warning after the fundamental context, which overwrites `before`
FundamentalWarning(before, action, recommendation) ==
    IF recommendation = NoRecommendation THEN before
    ELSE IF action = "COMPRAR" /\ recommendation = "sell" THEN "Analistas recomiendan venta"
    ELSE IF action = "VENDER" /\ recommendation = "buy" THEN "Analistas recomiendan compra"
    ELSE before

\* enhanced = action.copy(); enhanced["warning"] = ...
Enhanced(a, tech, fund) ==
    [ticker |-> a.ticker,
     action |-> a.action,
     qty |-> a.qty,
     value |-> a.value,
     current_weight |-> a.current_weight,
     target_weight |-> a.target_weight,
     deviation |-> a.deviation,
     reason |-> a.reason,
     row |-> a.row,
     warning |-> FundamentalWarning(TechnicalWarning(a.action, tech[a.ticker]),
                                    a.action, fund[a.ticker])]

EnhanceAll_DropWarned(acts, tech, fund) ==
    SelectSeq([k \in 1..Len(acts) |-> Enhanced(acts[k], tech, fund)],
              LAMBDA e : e.warning = NoWarning)

\* for action in actions: ... enhanced_actions.append(enhanced)
EnhanceAll(acts, tech, fund) ==
    [k \in 1..Len(acts) |-> Enhanced(acts[k], tech, fund)]

\* generate_rebalancing_recommendation: calculate_rebalancing_actions with
\* the default thresholds, then the warnings; tech is {ticker: rsi}, fund is
\* {ticker: recommendation}
generate_rebalancing_recommendation(h, p, tech, fund) ==
    EnhanceAll(calculate_rebalancing_actions(h, p, DEFAULT_MIN_TRADE_VALUE,
                                             DEFAULT_MAX_DEVIATION),
               tech, fund)

\* sum(s["price"] * Qty of s for s in stocks_data if s["price"] > 0)
SummaryTotalValue(stocks, h) ==
    SumSeq([k \in 1..Len(stocks) |->
              IF stocks[k].price > 0
              THEN stocks[k].price * RowOfTicker(h, stocks[k].ticker).Qty ELSE 0])

\* sum(s["prev_close"] * Qty of s for s in stocks_data if s["prev_close"] > 0)
SummaryTotalPrevValue(stocks, h) ==
    SumSeq([k \in 1..Len(stocks) |->
              IF stocks[k].prev_close > 0
              THEN stocks[k].prev_close * RowOfTicker(h, stocks[k].ticker).Qty ELSE 0])

PortfolioSummary(total, total_prev) ==
    [total_value |-> total,
     day_change |-> total - total_prev,
     day_change_pct |-> IF total_prev > 0
                        THEN Rat((total - total_prev) * 100, total_prev)
                        ELSE Rat(0, 1)]

InitRun ==
    /\ IdlePrice
    /\ IdleNews
    /\ holdings \in RunPositions
    /\ prices = [t \in Tickers |-> None]
    /\ min_trade_value = 0
    /\ max_deviation = 0
    /\ df = <<>>
    /\ actions = <<>>
    /\ pcPortfolio = "idle"
    /\ tickers = <<>>
    /\ response = [raised |-> FALSE, fields |-> <<>>]
    /\ quotes = <<>>
    /\ pcBatch = "idle"
    /\ ENABLE_REBALANCING \in BOOLEAN
    /\ prev_closes = [t \in Tickers |-> None]
    /\ total_portfolio_value = 0
    /\ stocks_data = <<>>
    /\ rebalancing_actions = <<>>
    /\ total_prev_value = 0
    /\ portfolio_summary = <<>>
    /\ email = "none"
    /\ pcRun = "quotes"
    /\ IdleRecommendation
    /\ IdleAnalysis
    /\ IdleAi
    /\ IdlePrevClose
    /\ IdleMain
    /\ IdleConfig
    /\ IdleRunPrice

\* tickers = ...; quotes = fetch_quotes_batch(tickers); prices; prev_closes;
\* total_portfolio_value
RunFetchQuotes ==
    /\ pcRun = "quotes"
    /\ \E resp \in RunResponses :
          LET l == UniqueTickers(<<>>, holdings)
              q == fetch_quotes_batch(l, resp)
          IN  /\ tickers' = l
              /\ response' = resp
              /\ quotes' = q
              /\ prices' = PricesOf(l, q)
              /\ prev_closes' = PrevClosesOf(l, q)
              /\ total_portfolio_value' = TotalPortfolioValue(l, holdings, PricesOf(l, q))
    /\ pcRun' = "stocks"
    /\ UNCHANGED <<holdings, ENABLE_REBALANCING, stocks_data, rebalancing_actions,
                   total_prev_value, portfolio_summary, email>>
    /\ UNCHANGED othersRun

\* for idx, ticker in enumerate(tickers): stocks_data.append(process_stock_data(...))
RunProcessStocks ==
    /\ pcRun = "stocks"
    /\ \E fallback \in [Tickers -> RunPrevCloses], articles \in [Tickers -> RunArticleCounts],
          indicators \in [Tickers -> RunIndicators] :
          /\ \A t \in Tickers :
                (t \notin RequestedSet(tickers) \/ prev_closes[t] # None)
                    => fallback[t] = 0
          /\ \A t \in Tickers : t \notin RequestedSet(tickers) => articles[t] = 0
          /\ \A t \in Tickers :
                t \notin RequestedSet(tickers) => indicators[t].rsi = None
          /\ stocks_data' =
                [k \in 1..Len(tickers) |->
                    process_stock_data(tickers[k], RowOfTicker(holdings, tickers[k]),
                                       prices, prev_closes, total_portfolio_value,
                                       fallback[tickers[k]], articles[tickers[k]],
                                       indicators[tickers[k]])]
    /\ pcRun' = "rebalancing"
    /\ UNCHANGED <<holdings, tickers, response, quotes, prices, ENABLE_REBALANCING,
                   prev_closes, total_portfolio_value, rebalancing_actions,
                   total_prev_value, portfolio_summary, email>>
    /\ UNCHANGED othersRun

\* tech_data_map = {s["ticker"]: s["technical_data"] for s in stocks_data}
TechDataMap(stocks) ==
    [t \in Tickers |->
        IF \E k \in 1..Len(stocks) : stocks[k].ticker = t
        THEN (CHOOSE st \in {stocks[k] : k \in 1..Len(stocks)} : st.ticker = t).technical_data
        ELSE None]

\* fund_data_map = {s["ticker"]: s["fundamental_data"] for s in stocks_data}
FundDataMap(stocks) ==
    [t \in Tickers |->
        IF \E k \in 1..Len(stocks) : stocks[k].ticker = t
        THEN (CHOOSE st \in {stocks[k] : k \in 1..Len(stocks)} : st.ticker = t).fundamental_data
        ELSE NoRecommendation]

\* rebalancing_actions = []; if ENABLE_REBALANCING: ...
RunRebalancing ==
    /\ pcRun = "rebalancing"
    /\ rebalancing_actions' =
          IF ENABLE_REBALANCING
          THEN generate_rebalancing_recommendation(holdings, prices,
                   TechDataMap(stocks_data), FundDataMap(stocks_data))
          ELSE <<>>
    /\ pcRun' = "summary"
    /\ UNCHANGED <<holdings, tickers, response, quotes, prices, ENABLE_REBALANCING,
                   prev_closes, total_portfolio_value, stocks_data,
                   total_prev_value, portfolio_summary, email>>
    /\ UNCHANGED othersRun

\* total_value, total_prev_value, day_change, day_change_pct, portfolio_summary
RunSummary ==
    /\ pcRun = "summary"
    /\ total_prev_value' = SummaryTotalPrevValue(stocks_data, holdings)
    /\ portfolio_summary' =
          PortfolioSummary(SummaryTotalValue(stocks_data, holdings),
                           SummaryTotalPrevValue(stocks_data, holdings))
    /\ pcRun' = "send"
    /\ UNCHANGED <<holdings, tickers, response, quotes, prices, ENABLE_REBALANCING,
                   prev_closes, total_portfolio_value, stocks_data,
                   rebalancing_actions, email>>
    /\ UNCHANGED othersRun

\* the check on the articles alone
NothingToSend_NewsOnly(stocks) ==
    SumSeq([k \in 1..Len(stocks) |-> stocks[k].articles]) = 0

\* if total_news == 0 and not any(s["price"] > 0 ...): return
NothingToSend(stocks) ==
    /\ SumSeq([k \in 1..Len(stocks) |-> stocks[k].articles]) = 0
    /\ ~(\E k \in 1..Len(stocks) : stocks[k].price > 0)

\* the check above, then generate_email_html and send_email_html, which
\* raises when the mail transport fails
RunSend ==
    /\ pcRun = "send"
    /\ \/ /\ NothingToSend(stocks_data)
          /\ email' = "not sent"
          /\ pcRun' = "done"
       \/ /\ ~NothingToSend(stocks_data)
          /\ \E delivered \in BOOLEAN :
                IF delivered
                THEN email' = "sent" /\ pcRun' = "done"
                ELSE email' = "none" /\ pcRun' = "aborted"
    /\ UNCHANGED <<holdings, tickers, response, quotes, prices, ENABLE_REBALANCING,
                   prev_closes, total_portfolio_value, stocks_data,
                   rebalancing_actions, total_prev_value, portfolio_summary>>
    /\ UNCHANGED othersRun

NextRun ==
    \/ RunFetchQuotes
    \/ RunProcessStocks
    \/ RunRebalancing
    \/ RunSummary
    \/ RunSend

SpecRun == InitRun /\ [][NextRun]_vars

(***************************************************************************)
(* Claims about the run (specification SpecRun).                           *)
(***************************************************************************)
\* the stocks whose price is known (0.0 is what the run holds for unknown)
KnownPriced(stocks) == SelectSeq(stocks, LAMBDA st : st.price > 0)

\* the rows of the tickers whose price is known
KnownPricedRows(h, p) == SelectSeq(h, LAMBDA r : p[r.Ticker] # None /\ p[r.Ticker] > 0)

\* an action without the index of its row
Recommended(a) == [ticker |-> a.ticker, action |-> a.action, qty |-> a.qty, value |-> a.value]

\* C5 (the fallback itself): if the first four sources yield unknown or zero
\* and the HTTP fallback yields p > 0, fetch_price returns p; if all five
\* fail it returns the unknown marker 0.
C5_FetchPriceFallback ==
    (pcPrice = "done" /\ Len(consulted) = Len(SourceOrder)) =>
        /\ \A k \in 1..(Len(consulted) - 1) : ~Truthy(consulted[k].yield)
        /\ ret = IF Truthy(consulted[Len(consulted)].yield)
                 THEN consulted[Len(consulted)].yield ELSE 0

\* C5 (downstream): a price reported as unknown is not used as a number by
\* the portfolio total, the current weights, the rebalancing actions or the
\* day change: each of them is what it would be with the holdings of unknown
\* price left out.
C5_UnknownPriceNotUsed ==
    pcRun \in {"send", "done", "aborted"} =>
        LET known == KnownPriced(stocks_data)
            knownRows == KnownPricedRows(holdings, prices)
        IN  /\ total_portfolio_value = SummaryTotalValue(known, holdings)
            /\ portfolio_summary.total_value = SummaryTotalValue(known, holdings)
            /\ \A k \in 1..Len(stocks_data) :
                  stocks_data[k].price = 0 =>
                      /\ stocks_data[k].position_value = 0
                      /\ RatEq(stocks_data[k].current_weight, Rat(0, 1))
                      /\ RatEq(stocks_data[k].change_pct, Rat(0, 1))
            /\ [k \in 1..Len(rebalancing_actions) |-> Recommended(rebalancing_actions[k])]
                  = LET without == IF ENABLE_REBALANCING
                                   THEN generate_rebalancing_recommendation(knownRows, prices,
                                            TechDataMap(stocks_data), FundDataMap(stocks_data))
                                   ELSE <<>>
                    IN  [k \in 1..Len(without) |-> Recommended(without[k])]
            /\ portfolio_summary.day_change
                  = SummaryTotalValue(known, holdings)
                    - SummaryTotalPrevValue(known, holdings)

(***************************************************************************)
(* Specification of generate_rebalancing_recommendation: one call with any *)
(* positions, prices, RSI values and analyst recommendations.              *)
(***************************************************************************)
RsiValues == {None, 0, 20, 30, 70, 80}

Recommendations == {NoRecommendation, "buy", "sell"}

RecommendationPrices == [Tickers -> {None, 100, 200}]

InitRecommendation ==
    /\ IdlePrice
    /\ IdleBatch
    /\ IdleNews
    /\ IdleRun
    /\ holdings \in RunPositions
    /\ prices = [t \in Tickers |-> None]
    /\ min_trade_value = 0
    /\ max_deviation = 0
    /\ df = <<>>
    /\ actions = <<>>
    /\ pcPortfolio = "idle"
    /\ technical_data = [t \in Tickers |-> None]
    /\ fundamental_data = [t \in Tickers |-> NoRecommendation]
    /\ enhanced_actions = <<>>
    /\ pcRecommendation = "start"
    /\ IdleAnalysis
    /\ IdleAi
    /\ IdlePrevClose
    /\ IdleMain
    /\ IdleConfig
    /\ IdleRunPrice

GenerateRebalancingRecommendation ==
    /\ pcRecommendation = "start"
    /\ \E p \in RecommendationPrices, tech \in [Tickers -> RsiValues],
          fund \in [Tickers -> Recommendations] :
          /\ prices' = p
          /\ technical_data' = tech
          /\ fundamental_data' = fund
          /\ enhanced_actions' = generate_rebalancing_recommendation(holdings, p, tech, fund)
    /\ pcRecommendation' = "done"
    /\ UNCHANGED holdings
    /\ UNCHANGED othersRecommendation

NextRecommendation == GenerateRebalancingRecommendation

SpecRecommendation == InitRecommendation /\ [][NextRecommendation]_vars

(***************************************************************************)
(* Claims about the recommendation (specification SpecRecommendation).     *)
(***************************************************************************)
\* the RSI is a number (not None)
KnownRsi(rsi) == rsi # None

\* C13: generate_rebalancing_recommendation attaches a warning to an action
\* when it is COMPRAR and the ticker's RSI > 70, when it is COMPRAR and the
\* analyst recommendation is "sell", when it is VENDER and the RSI < 30 (for
\* every RSI below 30, including 0), and when it is VENDER and the analyst
\* recommendation is "buy"; it attaches no warning in any other case.
C13_WarningIffOverstretched ==
    pcRecommendation = "done" =>
        \A k \in 1..Len(enhanced_actions) :
            LET a == enhanced_actions[k]
                rsi == technical_data[a.ticker]
                rec == fundamental_data[a.ticker]
            IN  (a.warning # NoWarning) <=>
                    \/ a.action = "COMPRAR" /\ KnownRsi(rsi) /\ rsi > 70
                    \/ a.action = "COMPRAR" /\ rec = "sell"
                    \/ a.action = "VENDER" /\ KnownRsi(rsi) /\ rsi < 30
                    \/ a.action = "VENDER" /\ rec = "buy"

\* C14: the list returned by generate_rebalancing_recommendation has the
\* length and order of the output of calculate_rebalancing_actions on the
\* same input, and each entry has the same ticker, action, qty, value and
\* deviation; only a warning may be added.
C14_EnrichmentKeepsActions ==
    pcRecommendation = "done" =>
        LET plain == calculate_rebalancing_actions(holdings, prices,
                         DEFAULT_MIN_TRADE_VALUE, DEFAULT_MAX_DEVIATION)
        IN  /\ Len(enhanced_actions) = Len(plain)
            /\ \A k \in 1..Len(plain) :
                  /\ enhanced_actions[k].ticker = plain[k].ticker
                  /\ enhanced_actions[k].action = plain[k].action
                  /\ enhanced_actions[k].qty = plain[k].qty
                  /\ enhanced_actions[k].value = plain[k].value
                  /\ enhanced_actions[k].deviation = plain[k].deviation
                  /\ enhanced_actions[k].current_weight = plain[k].current_weight
                  /\ enhanced_actions[k].target_weight = plain[k].target_weight
                  /\ enhanced_actions[k].reason = plain[k].reason

\* Two actions are returned, one with a warning and one without.
C14_Witness ==
    /\ pcRecommendation = "done"
    /\ Len(enhanced_actions) = 2
    /\ enhanced_actions[1].warning # NoWarning
    /\ enhanced_actions[2].warning = NoWarning

(***************************************************************************)
(* analysis.py: the technical indicators.  A close is a number > 0 or NaN. *)
(* A result is None, NaN or a number: an exact rational where the model    *)
(* computes the value (RSI, moving averages), and a float of unmodelled    *)
(* magnitude for the exponential averages of MACD and for the volatility,  *)
(* of which only the NaN rule of pandas is modelled.  volume_avg is left   *)
(* out.                                                                    *)
(***************************************************************************)
NaN == -3

RSI_PERIOD == 14

MACD_MIN_SAMPLES == 26

VOLATILITY_PERIOD == 20

NoValue == [kind |-> "None", n |-> 0, d |-> 1]

NaNValue == [kind |-> "nan", n |-> 0, d |-> 1]

Float == [kind |-> "float", n |-> 0, d |-> 1]

Num(n, d) == [kind |-> "num", n |-> n, d |-> d]

NoneIfNaN_Keep(v) == v

\* float(x) if not pd.isna(x) else None
NoneIfNaN(v) == IF v.kind = "nan" THEN NoValue ELSE v

\* delta.where(delta > 0, 0) at position i: a NaN delta (the first one, or
\* one next to a NaN close) fails the test and becomes 0
Gain(c, i) ==
    IF i = 1 \/ c[i] = NaN \/ c[i - 1] = NaN THEN 0
    ELSE IF c[i] - c[i - 1] > 0 THEN c[i] - c[i - 1] ELSE 0

\* -delta.where(delta < 0, 0) at position i
Loss(c, i) ==
    IF i = 1 \/ c[i] = NaN \/ c[i - 1] = NaN THEN 0
    ELSE IF c[i] - c[i - 1] < 0 THEN c[i - 1] - c[i] ELSE 0

\* the sum of f over the positions lo..hi
RECURSIVE SumRange(_, _, _)
SumRange(f, lo, hi) ==
    IF lo > hi THEN 0
    ELSE IF lo = hi THEN f[lo]
    ELSE SumRange(f, lo, (lo + hi) \div 2) + SumRange(f, (lo + hi) \div 2 + 1, hi)

\* the sum of f over the last `window` positions of a series of length len
WindowSum(f, len, window) == SumRange(f, len - window + 1, len)

\* rs = gain / loss; rsi = 100 - (100 / (1 + rs)), at the last position:
\* 0/0 is NaN, gain/0 is inf and gives 100
RsiLast(c, period) ==
    LET gain == WindowSum([i \in 1..Len(c) |-> Gain(c, i)], Len(c), period)
        loss == WindowSum([i \in 1..Len(c) |-> Loss(c, i)], Len(c), period)
    IN  IF loss = 0
        THEN (IF gain = 0 THEN NaNValue ELSE Num(100, 1))
        ELSE Num(100 * gain, gain + loss)

calculate_rsi(c, period) ==
    IF Len(c) < period + 1 THEN NoValue ELSE NoneIfNaN(RsiLast(c, period))

\* prices.ewm(span, adjust=False).mean().iloc[-1]: NaN only while no close
\* has been a number
EwmLast(c) == IF \A i \in 1..Len(c) : c[i] = NaN THEN NaNValue ELSE Float

calculate_macd(c) ==
    IF Len(c) < MACD_MIN_SAMPLES
    THEN [macd |-> NoValue, signal |-> NoValue, histogram |-> NoValue]
    ELSE [macd |-> NoneIfNaN(EwmLast(c)),
          signal |-> NoneIfNaN(EwmLast(c)),
          histogram |-> NoneIfNaN(EwmLast(c))]

\* prices.rolling(window=period).mean().iloc[-1]: NaN when a close of the
\* window is NaN
SmaLast(c, period) ==
    IF \E i \in (Len(c) - period + 1)..Len(c) : c[i] = NaN THEN NaNValue
    ELSE Num(WindowSum(c, Len(c), period), period)

\* the body of `for period in [20, 50, 200]`
Sma(c, period) ==
    IF Len(c) >= period THEN NoneIfNaN(SmaLast(c, period)) ELSE NoValue

calculate_moving_averages(c) ==
    [sma_20 |-> Sma(c, 20), sma_50 |-> Sma(c, 50), sma_200 |-> Sma(c, 200)]

\* returns.rolling(window=period).std().iloc[-1] of pct_change().dropna():
\* NaN unless the last `period` returns exist
VolatilityLast(c, period) ==
    LET returns == {i \in 2..Len(c) : c[i] # NaN /\ c[i - 1] # NaN}
    IN  IF Cardinality(returns) >= period THEN Float ELSE NaNValue

calculate_volatility(c, period) ==
    IF Len(c) < period THEN NoValue ELSE NoneIfNaN(VolatilityLast(c, period))

AllUnknownIndicators ==
    [rsi |-> NoValue, macd |-> NoValue, signal |-> NoValue, histogram |-> NoValue,
     sma_20 |-> NoValue, sma_50 |-> NoValue, sma_200 |-> NoValue,
     volatility |-> NoValue]

\* get_technical_analysis: the history raised or is empty, or the indicators
\* of its Close column
get_technical_analysis(hist) ==
    IF hist.raised \/ hist.fields = <<>> THEN AllUnknownIndicators
    ELSE LET c == hist.fields
             macd_data == calculate_macd(c)
             mas == calculate_moving_averages(c)
         IN  [rsi |-> calculate_rsi(c, RSI_PERIOD),
              macd |-> macd_data.macd,
              signal |-> macd_data.signal,
              histogram |-> macd_data.histogram,
              sma_20 |-> mas.sma_20,
              sma_50 |-> mas.sma_50,
              sma_200 |-> mas.sma_200,
              volatility |-> calculate_volatility(c, VOLATILITY_PERIOD)]

(***************************************************************************)
(* Specification of the indicators: one call of get_technical_analysis on  *)
(* a history of any of the lengths around the windows and any of the       *)
(* shapes below.                                                           *)
(***************************************************************************)
SampleCounts == {1, 13, 14, 15, 16, 19, 20, 21, 25, 26, 27, 49, 50, 51, 199, 200, 201}

Shapes == {"flat", "rising", "falling", "zigzag", "nan_last", "nan_first", "nan_all"}

CloseAt(shape, i, len) ==
    CASE shape = "flat" -> 2
      [] shape = "rising" -> i
      [] shape = "falling" -> len + 1 - i
      [] shape = "zigzag" -> 1 + (i % 2)
      [] shape = "nan_last" -> IF i = len THEN NaN ELSE i
      [] shape = "nan_first" -> IF i = 1 THEN NaN ELSE 1 + (i % 2)
      [] shape = "nan_all" -> NaN

Histories ==
    {Raised, Answered(<<>>)} \cup
    {Answered([i \in 1..len |-> CloseAt(shape, i, len)]) :
        len \in SampleCounts, shape \in Shapes}

InitAnalysis ==
    /\ IdlePortfolio
    /\ IdlePrice
    /\ IdleBatch
    /\ IdleNews
    /\ IdleRun
    /\ IdleRecommendation
    /\ IdleAi
    /\ IdlePrevClose
    /\ IdleMain
    /\ IdleConfig
    /\ IdleRunPrice
    /\ closes \in Histories
    /\ technical = <<>>
    /\ pcAnalysis = "start"

GetTechnicalAnalysis ==
    /\ pcAnalysis = "start"
    /\ technical' = get_technical_analysis(closes)
    /\ pcAnalysis' = "done"
    /\ UNCHANGED closes
    /\ UNCHANGED othersAnalysis

NextAnalysis == GetTechnicalAnalysis

SpecAnalysis == InitAnalysis /\ [][NextAnalysis]_vars

(***************************************************************************)
(* Claims about the indicators (specification SpecAnalysis).               *)
(***************************************************************************)
Samples == Len(closes.fields)

IndicatorNames ==
    {"rsi", "macd", "signal", "histogram", "sma_20", "sma_50", "sma_200"}

NeverNaN == \A name \in IndicatorNames : technical[name].kind # "nan"

\* C11 as stated: RSI (period 14), MACD (26) and the moving averages (20,
\* 50, 200) are None whenever the history has fewer than period + 1 samples,
\* and no indicator is ever NaN.
C11_Original ==
    pcAnalysis = "done" =>
        /\ Samples < 14 + 1 => technical.rsi = NoValue
        /\ Samples < 26 + 1 =>
              /\ technical.macd = NoValue
              /\ technical.signal = NoValue
              /\ technical.histogram = NoValue
        /\ Samples < 20 + 1 => technical.sma_20 = NoValue
        /\ Samples < 50 + 1 => technical.sma_50 = NoValue
        /\ Samples < 200 + 1 => technical.sma_200 = NoValue
        /\ NeverNaN

\* C11 as amended: RSI is None with fewer than 15 samples, MACD with fewer
\* than 26, and the moving average of period p with fewer than p (20, 50,
\* 200); no indicator is ever NaN.
C11_UnknownBelowWindow ==
    pcAnalysis = "done" =>
        /\ Samples < 15 => technical.rsi = NoValue
        /\ Samples < 26 =>
              /\ technical.macd = NoValue
              /\ technical.signal = NoValue
              /\ technical.histogram = NoValue
        /\ Samples < 20 => technical.sma_20 = NoValue
        /\ Samples < 50 => technical.sma_50 = NoValue
        /\ Samples < 200 => technical.sma_200 = NoValue
        /\ NeverNaN

\* A history of 25 closes whose last one is NaN: RSI is a number, the
\* 20-day average would be NaN and is None, MACD and the longer averages
\* are None for lack of samples.
C11_Witness ==
    /\ pcAnalysis = "done"
    /\ Samples = 25
    /\ closes.fields[25] = NaN
    /\ technical.rsi.kind = "num"
    /\ technical.sma_20 = NoValue
    /\ technical.macd = NoValue
    /\ technical.sma_50 = NoValue

\* the stocks whose completion call failed
AiFailed(stock) == stock.news_summary = ERROR_TEXT_PREFIX \o RunFailure.fields

StocksProcessed == pcRun \in {"rebalancing", "summary", "send", "done", "aborted"}

NoArticleAndNoPrice ==
    \A k \in 1..Len(stocks_data) :
        stocks_data[k].articles = 0 /\ ~(stocks_data[k].price > 0)

C18_WitnessNotSent ==
    /\ pcRun = "done"
    /\ email = "not sent"
    /\ Len(stocks_data) = 2


\* the stocks with a price and a previous close
PricedBothDays(stocks) == SelectSeq(stocks, LAMBDA st : st.price > 0 /\ st.prev_close > 0)

\* C28: the day change is computed over the same holdings on both sides: a
\* holding with a known price and an unknown previous close, or the reverse,
\* does not change day_change.
C28_DayChangeOverSameHoldings ==
    pcRun \in {"send", "done", "aborted"} =>
        portfolio_summary.day_change
            = SummaryTotalValue(PricedBothDays(stocks_data), holdings)
              - SummaryTotalPrevValue(PricedBothDays(stocks_data), holdings)

\* the same, for the runs where every stock has both values or neither
C28_WhenBothOrNeither ==
    (pcRun \in {"send", "done", "aborted"}
        /\ \A k \in 1..Len(stocks_data) :
              (stocks_data[k].price > 0) <=> (stocks_data[k].prev_close > 0)) =>
        portfolio_summary.day_change
            = SummaryTotalValue(PricedBothDays(stocks_data), holdings)
              - SummaryTotalPrevValue(PricedBothDays(stocks_data), holdings)

(***************************************************************************)
(* Specification of get_ai_analysis: one call, with or without a key, the  *)
(* completion failing with a message or answering one of the texts made of *)
(* the parts below.                                                        *)
(***************************************************************************)
NEWLINE == <<"\n">>

Preambles ==
    {<<>>,
     <<"N", "o", "t", "a", " ", "p", "r", "e", "v", "i", "a", ".", " ">> \o Repeat("x", 200) \o NEWLINE}

SummaryParts ==
    {<<>>,
     SUMMARY_MARKER \o <<"\n", "L", "a", "s", " ", "a", "c", "c", "i", "o", "n", "e", "s", " ",
      "s", "u", "b", "e", "n", ".", "\n">>,
     SUMMARY_MARKER \o <<"\n", "L", "a", "s", " ", "a", "c", "c", "i", "o", "n", "e", "s", " ",
      "d", "e", " ", "*", "*", "M", "U", "*", "*", " ", "s", "u", "b",
      "e", "n", ".", "\n">>,
     SUMMARY_MARKER \o NEWLINE}

RecommendationParts ==
    {<<>>,
     RECOMMENDATION_MARKER \o <<"\n", "C", "O", "M", "P", "R", "A", "R", " ", "-", " ", "b", "u", "e",
      "n", " ", "m", "o", "m", "e", "n", "t", "o", ".", "\n">>,
     RECOMMENDATION_MARKER \o <<"\n", "*", "*", "V", "E", "N", "D", "E", "R", "*", "*", " ", "-", " ",
      "r", "i", "e", "s", "g", "o", " ", "a", "l", "t", "o", ".", "\n">>,
     RECOMMENDATION_MARKER \o <<"\n", "v", "e", "n", "d", "e", "r", " ", "y", "a", ".", "\n">>,
     RECOMMENDATION_MARKER \o <<"\n", "M", "a", "n", "t", "e", "n", "e", "r", ".", "\n">>}

RisksParts ==
    {<<>>,
     RISKS_MARKER \o <<"\n", "-", " ", "T", "a", "s", "a", "s", ".", "\n", "-", " ", "R", "e",
      "s", "u", "l", "t", "a", "d", "o", "s", ".">>,
     RISKS_MARKER \o <<"\n", "-", " ", "*", "*", "T", "a", "s", "a", "s", "*", "*", ":", " ",
      "s", "u", "b", "e", "n", ".">>}

ErrorMessages == {<<"4", "0", "1", " ", "U", "n", "a", "u", "t", "h", "o", "r", "i", "z",
      "e", "d">>, <<"t", "i", "m", "e", "o", "u", "t">>}

Completions ==
    {[api_key |-> k, raised |-> TRUE, fields |-> e] : k \in BOOLEAN, e \in ErrorMessages}
    \cup
    {[api_key |-> k, raised |-> FALSE, fields |-> pre \o sm \o rc \o rk] :
        k \in BOOLEAN, pre \in Preambles, sm \in SummaryParts,
        rc \in RecommendationParts, rk \in RisksParts}

InitAi ==
    /\ IdlePortfolio
    /\ IdlePrice
    /\ IdleBatch
    /\ IdleNews
    /\ IdleRun
    /\ IdleRecommendation
    /\ IdleAnalysis
    /\ IdlePrevClose
    /\ IdleMain
    /\ IdleConfig
    /\ IdleRunPrice
    /\ completion \in Completions
    /\ ai_result = <<>>
    /\ pcAi = "start"

GetAiAnalysis ==
    /\ pcAi = "start"
    /\ ai_result' = get_ai_analysis(completion)
    /\ pcAi' = "done"
    /\ UNCHANGED completion
    /\ UNCHANGED othersAi

NextAi == GetAiAnalysis

SpecAi == InitAi /\ [][NextAi]_vars

SectionMarkers == {SUMMARY_MARKER, RECOMMENDATION_MARKER, RISKS_MARKER}

\* the text between a section marker and the next section marker, or the end
SectionText(marker, text) ==
    LET rest == SubSeq(text, IndexOf(marker, text) + Len(marker), Len(text))
        cuts == {IndexOf(m, rest) : m \in SectionMarkers} \ {0}
        stop == IF cuts = {} THEN Len(rest) + 1
                ELSE CHOOSE c \in cuts : \A d \in cuts : c <= d
    IN  Strip(SubSeq(rest, 1, stop - 1))

\* the recommendation word a section text carries
RecommendationIn(section) ==
    IF Contains(COMPRAR, Upper(section)) THEN COMPRAR
    ELSE IF Contains(VENDER, Upper(section)) THEN VENDER
    ELSE MANTENER

AiAnswered == pcAi = "done" /\ completion.api_key /\ ~completion.raised

\* C16: for an answered completion, summary, recommendation and risks are
\* taken from the text between their section marker and the next section
\* marker (or the end of the text); without its marker the recommendation is
\* MANTENER, the summary is the first 200 characters of the full text and
\* the risks are 'Ver análisis completo'.
C16_SectionsUpToNextMarker ==
    AiAnswered =>
        LET full_text == ai_result.full_text
        IN  /\ ai_result.summary =
                  IF Contains(SUMMARY_MARKER, full_text)
                     /\ SectionText(SUMMARY_MARKER, full_text) # <<>>
                  THEN SectionText(SUMMARY_MARKER, full_text)
                  ELSE Take(full_text, 200)
            /\ ai_result.recommendation =
                  IF Contains(RECOMMENDATION_MARKER, full_text)
                  THEN RecommendationIn(SectionText(RECOMMENDATION_MARKER, full_text))
                  ELSE MANTENER
            /\ ai_result.risks =
                  IF Contains(RISKS_MARKER, full_text)
                     /\ SectionText(RISKS_MARKER, full_text) # <<>>
                  THEN SectionText(RISKS_MARKER, full_text)
                  ELSE SEE_FULL_ANALYSIS

\* the recommendation part of C16 alone: a section that names COMPRAR or
\* VENDER gives that recommendation
C16_RecommendationOfSection ==
    AiAnswered /\ Contains(RECOMMENDATION_MARKER, ai_result.full_text) =>
        ai_result.recommendation =
            RecommendationIn(SectionText(RECOMMENDATION_MARKER, ai_result.full_text))

\* C29: get_ai_analysis returns a recommendation in {COMPRAR, VENDER,
\* MANTENER}; when the text has the recommendation marker and its section
\* names VENDER and not COMPRAR, also written in bold as **VENDER**, the
\* recommendation is VENDER.
C29_VenderIsRecognised ==
    pcAi = "done" =>
        /\ ai_result.recommendation \in {COMPRAR, VENDER, MANTENER}
        /\ (AiAnswered
            /\ Contains(RECOMMENDATION_MARKER, ai_result.full_text)
            /\ Contains(VENDER,
                        Upper(SectionText(RECOMMENDATION_MARKER, ai_result.full_text)))
            /\ ~Contains(COMPRAR,
                         Upper(SectionText(RECOMMENDATION_MARKER, ai_result.full_text))))
           => ai_result.recommendation = VENDER

\* the first part of C29 alone
C29_KnownRecommendation ==
    pcAi = "done" => ai_result.recommendation \in {COMPRAR, VENDER, MANTENER}

(***************************************************************************)
(* prices.py: fetch_prev_close.  The daily history raises or gives its     *)
(* closes, oldest first; the HTTP quote gives a previous close or None.    *)
(***************************************************************************)
fetch_prev_close(h, q) ==
    IF ~h.raised /\ Len(h.Close) >= 2 THEN h.Close[Len(h.Close) - 1]
    ELSE IF ~h.raised /\ Len(h.Close) = 1 THEN h.Close[Len(h.Close)]
    ELSE IF q # None THEN q
    ELSE 0

MaxDays == 3

CloseValues == {1, 2, 3}

DailyHistories ==
    {[raised |-> TRUE, Close |-> <<>>]}
    \cup {[raised |-> FALSE, Close |-> c] :
            c \in UNION {[1..n -> CloseValues] : n \in 0..MaxDays}}

InitPrevClose ==
    /\ IdlePortfolio
    /\ IdlePrice
    /\ IdleBatch
    /\ IdleNews
    /\ IdleRun
    /\ IdleRecommendation
    /\ IdleAnalysis
    /\ IdleAi
    /\ IdleMain
    /\ IdleConfig
    /\ IdleRunPrice
    /\ daily_hist \in DailyHistories
    /\ http_prev_close \in {None} \cup CloseValues
    /\ ret_prev_close = None
    /\ pcPrevClose = "start"

FetchPrevClose ==
    /\ pcPrevClose = "start"
    /\ ret_prev_close' = fetch_prev_close(daily_hist, http_prev_close)
    /\ pcPrevClose' = "done"
    /\ UNCHANGED <<daily_hist, http_prev_close>>
    /\ UNCHANGED othersPrevClose

NextPrevClose == FetchPrevClose

SpecPrevClose == InitPrevClose /\ [][NextPrevClose]_vars

MultiDay == ~daily_hist.raised /\ Len(daily_hist.Close) >= 2

\* C19: fetch_prev_close returns the second-to-last close of a multi-day
\* daily history; without one, the previous close of the HTTP quote; without
\* that, unknown (0.0).  The last close of the history is not used.
C19_SecondToLastOrQuote ==
    pcPrevClose = "done" =>
        ret_prev_close =
            IF MultiDay THEN daily_hist.Close[Len(daily_hist.Close) - 1]
            ELSE IF http_prev_close # None THEN http_prev_close
            ELSE 0

\* the first part of C19: a multi-day history gives its second-to-last close
C19_MultiDay ==
    pcPrevClose = "done" /\ MultiDay => ret_prev_close = daily_hist.Close[Len(daily_hist.Close) - 1]

(***************************************************************************)
(* news_digest_enhanced.py: main, from the loaded sheet to the positions   *)
(* the rest of the run works on: extract_cash, the rows kept as positions, *)
(* the default TargetWeight, the ticker list, and the rebalancing actions  *)
(* computed from those positions.                                          *)
(***************************************************************************)
CashTickers == {"CASH", "CASH_USD"}

\* float(cash_rows["Cash"].sum()) if not cash_rows.empty else 0.0
extract_cash(rows) ==
    SumSeq([k \in 1..Len(rows) |->
               IF rows[k].Ticker \in CashTickers THEN rows[k].Cash ELSE 0])

\* the filter that lets the CASH_USD rows through
PositionRows_OnlyCash(rows) == SelectSeq(rows, LAMBDA r : r.Ticker # "CASH")

\* portfolio_df[~portfolio_df["Ticker"].isin(["CASH", "CASH_USD"])]
PositionRows(rows) == SelectSeq(rows, LAMBDA r : r.Ticker \notin CashTickers)

\* 100.0 / max(len(positions_df), 1)
EqualWeight(n) == Rat(100, IF n > 1 THEN n ELSE 1)

\* positions_df after the TargetWeight column is made sure of
WithTargetWeight(sheet) ==
    LET kept == PositionRows(sheet.rows)
    IN  [k \in 1..Len(kept) |->
            [Ticker |-> kept[k].Ticker,
             Qty |-> kept[k].Qty,
             Cash |-> kept[k].Cash,
             TargetWeight |-> IF sheet.has_target_weight
                              THEN Rat(kept[k].TargetWeight, 1)
                              ELSE EqualWeight(Len(kept))]]

\* the rows as the rebalancer reads them; the weights of the sheets below
\* are whole numbers (WholeWeights)
AsHoldings(positions) ==
    [k \in 1..Len(positions) |->
        [Ticker |-> positions[k].Ticker,
         Qty |-> positions[k].Qty,
         TargetWeight |-> positions[k].TargetWeight.n \div positions[k].TargetWeight.d]]

SheetTickers == Tickers \cup CashTickers

SheetCash == {5}

SheetRows ==
    [Ticker : Tickers, Qty : RunQuantities, Cash : {0}, TargetWeight : RunTargetWeights]
    \cup [Ticker : CashTickers, Qty : {0}, Cash : SheetCash, TargetWeight : {0}]

MaxSheetRows == 3

\* the default weight of the sheet is a whole number
WholeWeights(sheet) ==
    sheet.has_target_weight \/ PositionRows(sheet.rows) = <<>>
    \/ 100 % Len(PositionRows(sheet.rows)) = 0

Sheets ==
    {sheet \in [has_target_weight : BOOLEAN,
                rows : UNION {[1..n -> SheetRows] : n \in 0..MaxSheetRows}] :
        WholeWeights(sheet)}

\* prices = {ticker: quotes.get(ticker, {}).get("price") or 0.0 for ticker in tickers}
SheetPrices(l, known) ==
    [t \in SheetTickers |-> IF t \in RequestedSet(l) /\ t \in known THEN 100 ELSE None]

\* MIN_TRADE_VALUE and MAX_DEVIATION of the environment, 100 and 5 when unset
ConfiguredMinTradeValues == {DEFAULT_MIN_TRADE_VALUE, 500}

ConfiguredMaxDeviations == {DEFAULT_MAX_DEVIATION, 60}

InitMain ==
    /\ IdleConfig
    /\ IdleRunPrice
    /\ IdlePortfolio
    /\ IdlePrice
    /\ IdleBatch
    /\ IdleNews
    /\ IdleRun
    /\ IdleRecommendation
    /\ IdleAnalysis
    /\ IdleAi
    /\ IdlePrevClose
    /\ portfolio_df \in Sheets
    /\ cash_available = 0
    /\ positions_df = <<>>
    /\ position_tickers = <<>>
    /\ position_prices = <<>>
    /\ report_weights = <<>>
    /\ MIN_TRADE_VALUE \in ConfiguredMinTradeValues
    /\ MAX_DEVIATION \in ConfiguredMaxDeviations
    /\ position_actions = <<>>
    /\ pcMain = "start"

\* cash_available, positions_df, TargetWeight, tickers
MainPositions ==
    /\ pcMain = "start"
    /\ cash_available' = extract_cash(portfolio_df.rows)
    /\ positions_df' = WithTargetWeight(portfolio_df)
    /\ position_tickers' = UniqueTickers(<<>>, WithTargetWeight(portfolio_df))
    /\ pcMain' = "positions"
    /\ UNCHANGED <<portfolio_df, position_prices, report_weights, MIN_TRADE_VALUE,
                   MAX_DEVIATION, position_actions>>
    /\ UNCHANGED othersMain

\* current_weight of process_stock_data for each ticker, against main's
\* total_portfolio_value
ReportWeights(l, h, p) ==
    [k \in 1..Len(l) |->
        process_stock_data(l[k], RowOfTicker(h, l[k]), p,
                           [t \in SheetTickers |-> None],
                           TotalPortfolioValue(l, h, p), 0, 0,
                           [rsi |-> None, recommendation |-> NoRecommendation,
                            completion |-> RunAnswer]).current_weight]

\* quotes and prices, the stocks of the report, then
\* generate_rebalancing_recommendation(holdings=positions_df, prices=prices, ...)
MainRebalancing ==
    /\ pcMain = "positions"
    /\ \E known \in SUBSET Tickers :
          /\ position_prices' = SheetPrices(position_tickers, known)
          /\ report_weights' =
                ReportWeights(position_tickers, AsHoldings(positions_df),
                              SheetPrices(position_tickers, known))
          /\ position_actions' =
                generate_rebalancing_recommendation(
                    AsHoldings(positions_df),
                    SheetPrices(position_tickers, known),
                    [t \in SheetTickers |-> None],
                    [t \in SheetTickers |-> NoRecommendation])
    /\ pcMain' = "rebalanced"
    /\ UNCHANGED <<portfolio_df, cash_available, positions_df, position_tickers,
                   MIN_TRADE_VALUE, MAX_DEVIATION>>
    /\ UNCHANGED othersMain

NextMain == MainPositions \/ MainRebalancing

SpecMain == InitMain /\ [][NextMain]_vars

CashRowsOf(rows) == SelectSeq(rows, LAMBDA r : r.Ticker \in CashTickers)

NonCashRowsOf(rows) == SelectSeq(rows, LAMBDA r : ~(r.Ticker \in CashTickers))

\* C20: a row whose Ticker is CASH or CASH_USD is not a position: it is not
\* among the tickers priced and analysed, no rebalancing action names it, the
\* equal-weight default of TargetWeight divides 100 by the number of the other
\* rows only, and cash_available is the sum of the Cash column of the cash
\* rows.
C20_CashRowsAreNotPositions ==
    pcMain \in {"positions", "rebalanced"} =>
        /\ \A k \in 1..Len(position_tickers) : position_tickers[k] \notin CashTickers
        /\ RequestedSet(position_tickers) =
              {portfolio_df.rows[k].Ticker : k \in 1..Len(portfolio_df.rows)} \ CashTickers
        /\ Len(positions_df) = Len(NonCashRowsOf(portfolio_df.rows))
        /\ \A k \in 1..Len(positions_df) :
              /\ positions_df[k].Ticker \notin CashTickers
              /\ ~portfolio_df.has_target_weight =>
                    RatEq(positions_df[k].TargetWeight,
                          Rat(100, Len(NonCashRowsOf(portfolio_df.rows))))
        /\ cash_available =
              SumSeq([k \in 1..Len(CashRowsOf(portfolio_df.rows)) |->
                         CashRowsOf(portfolio_df.rows)[k].Cash])
        /\ \A k \in 1..Len(position_actions) :
              position_actions[k].ticker \notin CashTickers

\* a sheet without a TargetWeight column, with two positions and a cash row
\* of 5: the positions get 50 each, cash_available is 5, and the rebalancer
\* acts on the positions
C20_Witness ==
    /\ pcMain = "rebalanced"
    /\ ~portfolio_df.has_target_weight
    /\ Len(portfolio_df.rows) = 3
    /\ Len(CashRowsOf(portfolio_df.rows)) = 1
    /\ cash_available = 5
    /\ Len(positions_df) = 2
    /\ \A k \in 1..2 : RatEq(positions_df[k].TargetWeight, Rat(50, 1))
    /\ position_actions # <<>>

\* C24: the rebalancing actions of a run are those of
\* calculate_rebalancing_actions(holdings, prices, MIN_TRADE_VALUE,
\* MAX_DEVIATION), for every configured MIN_TRADE_VALUE and MAX_DEVIATION.
C24_ConfiguredThresholdsUsed ==
    pcMain = "rebalanced" =>
        position_actions =
            EnhanceAll(calculate_rebalancing_actions(AsHoldings(positions_df),
                                                     position_prices,
                                                     MIN_TRADE_VALUE, MAX_DEVIATION),
                       [t \in SheetTickers |-> None],
                       [t \in SheetTickers |-> NoRecommendation])

\* the same, for the runs configured with the values of the defaults
C24_DefaultThresholdsUsed ==
    (pcMain = "rebalanced" /\ MIN_TRADE_VALUE = DEFAULT_MIN_TRADE_VALUE
        /\ MAX_DEVIATION = DEFAULT_MAX_DEVIATION) =>
        position_actions =
            EnhanceAll(calculate_rebalancing_actions(AsHoldings(positions_df),
                                                     position_prices,
                                                     MIN_TRADE_VALUE, MAX_DEVIATION),
                       [t \in SheetTickers |-> None],
                       [t \in SheetTickers |-> NoRecommendation])

\* the rows of the rebalancer's table for the positions of the run
RebalancerRows == calculate_portfolio_values(AsHoldings(positions_df), position_prices)

\* C27: for every sheet, also one where a ticker has more than one row, the
\* current_weight the report shows for a ticker equals the current_weight the
\* rebalancer computes for that ticker's holding.
C27_ReportWeightIsRebalancerWeight ==
    pcMain = "rebalanced" =>
        \A k \in 1..Len(position_tickers) :
            \A i \in 1..Len(RebalancerRows) :
                RebalancerRows[i].Ticker = position_tickers[k] =>
                    RatEq(report_weights[k], RebalancerRows[i].CurrentWeight)

\* the same, for the sheets where every ticker has one row
C27_OneRowPerTicker ==
    (pcMain = "rebalanced" /\ Len(position_tickers) = Len(positions_df)) =>
        \A k \in 1..Len(position_tickers) :
            \A i \in 1..Len(RebalancerRows) :
                RebalancerRows[i].Ticker = position_tickers[k] =>
                    RatEq(report_weights[k], RebalancerRows[i].CurrentWeight)

(***************************************************************************)
(* news_digest_enhanced.py: the module body (load_dotenv, the check of the *)
(* required settings, the configuration constants), then main and the      *)
(* network calls of a run, in the order main makes them.                   *)
(***************************************************************************)
REQUIRED_ENV_VARS ==
    {"SHEET_CSV_URL", "FROM_EMAIL", "TO_EMAIL", "SMTP_PASS", "OPENAI_API_KEY"}

\* the settings a value given but empty does not stop
MissingVars_UnsetOnly(e) == {v \in REQUIRED_ENV_VARS : e[v] = "missing"}

\* missing_vars = [var for var in REQUIRED_ENV_VARS if not os.environ.get(var)]
MissingVars(e) == {v \in REQUIRED_ENV_VARS : e[v] \in {"missing", "empty"}}

\* load_portfolio, fetch_quotes_batch, aggregate_news_from_all_sources,
\* get_ai_analysis, send_email_html
NetworkCalls == <<"sheet", "quote", "news", "completion", "mail">>

InitConfig ==
    /\ IdleRunPrice
    /\ IdlePortfolio
    /\ IdlePrice
    /\ IdleBatch
    /\ IdleNews
    /\ IdleRun
    /\ IdleRecommendation
    /\ IdleAnalysis
    /\ IdleAi
    /\ IdlePrevClose
    /\ IdleMain
    /\ env \in [REQUIRED_ENV_VARS -> {"missing", "empty", "set"}]
    /\ network_calls = <<>>
    /\ pcConfig = "import"

\* if missing_vars: raise RuntimeError(...); else the constants are read
LoadModule ==
    /\ pcConfig = "import"
    /\ pcConfig' = IF MissingVars(env) # {} THEN "aborted" ELSE "main"
    /\ UNCHANGED <<env, network_calls>>
    /\ UNCHANGED othersConfig

\* main: the next network call of the run
MainNetworkCall ==
    /\ pcConfig = "main"
    /\ network_calls' = Append(network_calls, NetworkCalls[Len(network_calls) + 1])
    /\ pcConfig' = IF Len(network_calls) + 1 = Len(NetworkCalls) THEN "finished" ELSE "main"
    /\ UNCHANGED env
    /\ UNCHANGED othersConfig

NextConfig == LoadModule \/ MainNetworkCall

SpecConfig == InitConfig /\ [][NextConfig]_vars

\* C21: when a required setting is missing or empty, the run aborts before
\* any network call is made.
C21_AbortBeforeNetwork ==
    (\E v \in REQUIRED_ENV_VARS : env[v] # "set") =>
        /\ network_calls = <<>>
        /\ pcConfig \in {"import", "aborted"}

\* the module refused to load because of a setting given but empty
C21_Witness ==
    /\ pcConfig = "aborted"
    /\ \E v \in REQUIRED_ENV_VARS : env[v] = "empty"
    /\ \A v \in REQUIRED_ENV_VARS : env[v] # "missing"
    /\ network_calls = <<>>

(***************************************************************************)
(* news_digest_enhanced.py: the price main uses for one ticker.  The       *)
(* sources of fetch_price have what they have for the ticker; main takes   *)
(* the price of the multi-symbol quote.                                    *)
(***************************************************************************)
SourceNames == {SourceOrder[k] : k \in 1..Len(SourceOrder)}

RunPriceValues == {None, 0, MaxPrice}

\* (quotes.get(ticker, {}).get("price") or 0.0), then prices.get(ticker, 0.0)
RunPriceOf(quote_price) == PyOr(quote_price, 0)

InitRunPrice ==
    /\ IdlePortfolio
    /\ IdlePrice
    /\ IdleBatch
    /\ IdleNews
    /\ IdleRun
    /\ IdleRecommendation
    /\ IdleAnalysis
    /\ IdleAi
    /\ IdlePrevClose
    /\ IdleMain
    /\ IdleConfig
    /\ source_yields \in [SourceNames -> RunPriceValues]
    /\ batch_price \in RunPriceValues
    /\ run_price = None
    /\ pcRunPrice = "start"

ResolveRunPrice ==
    /\ pcRunPrice = "start"
    /\ run_price' = RunPriceOf(batch_price)
    /\ pcRunPrice' = "done"
    /\ UNCHANGED <<source_yields, batch_price>>
    /\ UNCHANGED othersRunPrice

NextRunPrice == ResolveRunPrice

SpecRunPrice == InitRunPrice /\ [][NextRunPrice]_vars

\* C25: the price of a ticker is unknown in the run only if every source of
\* the fallback chain yielded nothing for it.
C25_UnknownOnlyIfChainEmpty ==
    (pcRunPrice = "done" /\ run_price = 0) =>
        \A src \in SourceNames : ~Truthy(source_yields[src])

\* the part of C25 that is about the multi-symbol quote alone: its price,
\* when it has one, is the price of the run
C25_QuotePriceUsed ==
    (pcRunPrice = "done" /\ Truthy(batch_price)) => run_price = batch_price

====
